---- MODULE Spec2Model ----
(***************************************************************************)
(* Model of the tool-calling playground: the benchmark orchestrator        *)
(* (src/src/benchmark.ts), the strategy-attempt retry controller           *)
(* (src/src/strategy-runner.ts), the three strategy engines                *)
(* (structured-json, single-tool-router, hybrid-repair), the tool registry *)
(* and the JSON recovery helpers they use.                                 *)
(*                                                                         *)
(* JSON values are records carrying a "json" field with their JSON type;   *)
(* a JSON object additionally carries its keys as record fields, so that   *)
(* `k \in DOMAIN v` is "v has key k".  A model text is a pair of the       *)
(* syntactic form the model wrote it in and the value that form encodes.   *)
(* Error messages are strings, built by concatenation as the code does.    *)
(***************************************************************************)
EXTENDS Integers, Sequences, FiniteSets, TLC

(***************************************************************************)
(* Bounds of the model.                                                    *)
(***************************************************************************)
MaxCells == 4
MaxRetriesBound == 1
MaxTurnsBound == 2
MaxIterations == 2
MaxRecords == 3
MaxChars == 5
MaxOptions == 6

(***************************************************************************)
(* JSON values.                                                            *)
(***************************************************************************)
Num(n) == [t |-> "number", n |-> n]
StrElem == [t |-> "string", n |-> 0]

EmptyObject == [json |-> "object"]
JsonArray == [json |-> "array"]

isJsonObject(value) == value.json = "object"

Has(value, key) == key \in DOMAIN value

\* JavaScript truthiness of an optional string field: absent and "" are falsy.
Truthy(value, key) == Has(value, key) /\ value[key] # ""

ArgsSum12 == [json |-> "object", numbers |-> <<Num(1), Num(2)>>]
ArgsNonNumeric == [json |-> "object", numbers |-> <<Num(1), StrElem>>]
ArgsNoItems == [json |-> "object", numbers |-> <<>>]
ArgsDesc21 == [json |-> "object", numbers |-> <<Num(2), Num(1)>>, order |-> "desc"]
ArgsBadOrder == [json |-> "object", numbers |-> <<Num(2), Num(1)>>, order |-> "up"]

ValidRawArgs == {ArgsSum12, ArgsDesc21}
InvalidRawArgs == {ArgsNonNumeric, EmptyObject}
RawArgs == ValidRawArgs \cup InvalidRawArgs

(***************************************************************************)
(* Tool registry (createDemoToolRegistry); two of its tools are modelled:  *)
(* sum_numbers {numbers: number[] (min 1)} and sort_numbers                *)
(* {numbers: number[] (min 1), order: "asc"|"desc" default "asc"}.         *)
(***************************************************************************)
UnknownToolName == "launch_rocket"
createDemoToolRegistry == {"sum_numbers", "sort_numbers"}
ToolNames == createDemoToolRegistry \cup {UnknownToolName}

has(registry, name) == name \in registry

RECURSIVE FirstNonNumber(_, _)
FirstNonNumber(numbers, i) ==
  IF i > Len(numbers) THEN 0
  ELSE IF numbers[i].t # "number" THEN i
  ELSE FirstNonNumber(numbers, i + 1)

\* Issues of z.array(z.number()).min(1) on the key "numbers", as "<path>: <message>".
numbersIssues(raw) ==
  IF ~Has(raw, "numbers") THEN <<"numbers: expected array, received undefined">>
  ELSE IF FirstNonNumber(raw.numbers, 1) # 0
    THEN <<"numbers." \o ToString(FirstNonNumber(raw.numbers, 1) - 1)
            \o ": expected number, received string">>
  ELSE IF Len(raw.numbers) < 1 THEN <<"numbers: expected array to have >=1 items">>
  ELSE <<>>

orderIssues(raw) ==
  IF Has(raw, "order") /\ raw.order \notin {"asc", "desc"}
    THEN <<"order: expected one of asc|desc">>
    ELSE <<>>

sumNumbersArgsSchema(raw) ==
  IF ~isJsonObject(raw)
    THEN [success |-> FALSE, issues |-> <<"root: expected object">>, data |-> EmptyObject]
  ELSE IF numbersIssues(raw) # <<>>
    THEN [success |-> FALSE, issues |-> numbersIssues(raw), data |-> EmptyObject]
  ELSE [success |-> TRUE, issues |-> <<>>,
        data |-> [json |-> "object", numbers |-> raw.numbers]]

sortNumbersArgsSchema(raw) ==
  IF ~isJsonObject(raw)
    THEN [success |-> FALSE, issues |-> <<"root: expected object">>, data |-> EmptyObject]
  ELSE IF numbersIssues(raw) \o orderIssues(raw) # <<>>
    THEN [success |-> FALSE, issues |-> numbersIssues(raw) \o orderIssues(raw),
          data |-> EmptyObject]
  ELSE [success |-> TRUE, issues |-> <<>>,
        data |-> [json |-> "object", numbers |-> raw.numbers,
                  order |-> IF Has(raw, "order") THEN raw.order ELSE "asc"]]

argsSchema(name, raw) ==
  IF name = "sum_numbers" THEN sumNumbersArgsSchema(raw) ELSE sortNumbersArgsSchema(raw)

RECURSIVE JoinSemicolon(_)
JoinSemicolon(parts) ==
  IF Len(parts) = 0 THEN ""
  ELSE IF Len(parts) = 1 THEN parts[1]
  ELSE parts[1] \o "; " \o JoinSemicolon(Tail(parts))

\* Line 76 without the lookup of lines 77-80.
validateArgsWithoutLookup(registry, name, raw) ==
  IF ~argsSchema(name, raw).success
    THEN [ok |-> FALSE, error |-> JoinSemicolon(argsSchema(name, raw).issues),
          args |-> EmptyObject]
  ELSE [ok |-> TRUE, error |-> "", args |-> argsSchema(name, raw).data]

validateArgs(registry, name, raw) ==
  IF ~has(registry, name)
    THEN [ok |-> FALSE, error |-> "Unknown tool: " \o name, args |-> EmptyObject]
  ELSE IF ~argsSchema(name, raw).success
    THEN [ok |-> FALSE, error |-> JoinSemicolon(argsSchema(name, raw).issues),
          args |-> EmptyObject]
  ELSE [ok |-> TRUE, error |-> "", args |-> argsSchema(name, raw).data]

RECURSIVE SumOf(_)
SumOf(numbers) == IF numbers = <<>> THEN 0 ELSE Head(numbers).n + SumOf(Tail(numbers))

RECURSIVE Insert(_, _)
Insert(x, sorted) ==
  IF sorted = <<>> THEN <<x>>
  ELSE IF x <= Head(sorted) THEN <<x>> \o sorted
  ELSE <<Head(sorted)>> \o Insert(x, Tail(sorted))

RECURSIVE SortAsc(_)
SortAsc(numbers) ==
  IF numbers = <<>> THEN <<>> ELSE Insert(Head(numbers).n, SortAsc(Tail(numbers)))

Reverse(s) == [i \in 1..Len(s) |-> s[Len(s) + 1 - i]]

\* tool.execute of the two modelled tools; execute throws for an unknown name.
toolExecute(name, args) ==
  IF name = "sum_numbers"
    THEN [total |-> SumOf(IF Has(args, "numbers") THEN args.numbers ELSE <<>>)]
    ELSE [sorted |-> IF Has(args, "order") /\ args.order = "desc"
                       THEN Reverse(SortAsc(IF Has(args, "numbers") THEN args.numbers ELSE <<>>))
                       ELSE SortAsc(IF Has(args, "numbers") THEN args.numbers ELSE <<>>),
          order |-> IF Has(args, "order") THEN args.order ELSE "undefined"]

execute(registry, name, args) ==
  IF ~has(registry, name)
    THEN [ok |-> FALSE, error |-> "Unknown tool: " \o name, result |-> [total |-> 0]]
    ELSE [ok |-> TRUE, error |-> "", result |-> toolExecute(name, args)]

(***************************************************************************)
(* JSON recovery (src/src/core/json-utils.ts) on model texts.              *)
(* Forms: "strict" is JSON.stringify output, "fenced" is wrapped in one    *)
(* markdown code fence, "trailing_comma" has a comma before a closing      *)
(* brace (needs jsonrepair), "empty" is the empty or all-blank string,     *)
(* "fenced_empty" is a fence around nothing, "fenced_trailing_comma" a     *)
(* fence around a trailing-comma text, "plain" is unquoted prose,          *)
(* "trailing_prose" is the value followed by " Hope this helps.",          *)
(* "array_prose" is [1, 2] followed by prose, "unkeyed" is {:} and         *)
(* "unkeyed_prose" is {:} followed by prose.                               *)
(***************************************************************************)
TextForms == {"strict", "fenced", "trailing_comma", "empty"}
Text(form, val) == [form |-> form, val |-> val]
EmptyText == Text("empty", EmptyObject)

\* unwrapMarkdownCodeFence followed by the trim of line 37.
unwrapMarkdownCodeFence(input) ==
  IF input.form = "fenced" THEN Text("strict", input.val)
  ELSE IF input.form = "fenced_empty" THEN EmptyText
  ELSE IF input.form = "fenced_trailing_comma" THEN Text("trailing_comma", input.val)
  ELSE input

\* JSON.parse accepts the text.
JSONparse(text) == text.form = "strict"

\* The jsonrepair library: it removes a trailing comma and quotes bare prose; it
\* throws on text after the root value and on an object without a key.
jsonrepair(text) ==
  IF text.form \in {"strict", "trailing_comma", "plain"}
    THEN [ok |-> TRUE, error |-> "", text |-> Text("strict", text.val)]
  ELSE IF text.form \in {"unkeyed", "unkeyed_prose"}
    THEN [ok |-> FALSE, error |-> "Object key expected", text |-> text]
  ELSE [ok |-> FALSE, error |-> "Unexpected character", text |-> text]

\* The "{" and "}" characters of a text, in order; those of a value are the ones
\* JSON.stringify writes, string contents included.
bracesOfString(chars) == IF chars = "{" THEN <<"{">> ELSE <<>>

RECURSIVE bracesOf(_)
bracesOf(value) ==
  IF ~isJsonObject(value) THEN <<>>
  ELSE <<"{">>
         \o (IF Has(value, "args") THEN bracesOf(value.args) ELSE <<>>)
         \o (IF Has(value, "note") THEN bracesOfString(value.note) ELSE <<>>)
         \o <<"}">>

braces(text) ==
  IF text.form \in {"unkeyed", "unkeyed_prose"} THEN <<"{", "}">>
  ELSE IF text.form \in {"strict", "trailing_comma", "trailing_prose"} THEN bracesOf(text.val)
  ELSE <<>>

\* String.prototype.indexOf of one character, from 1; 0 when there is none.
indexOf(chars, ch) ==
  IF \E i \in 1..Len(chars) : chars[i] = ch
    THEN CHOOSE i \in 1..Len(chars) : chars[i] = ch /\ \A j \in 1..(i - 1) : chars[j] # ch
    ELSE 0

\* Lines 20-31: the index of the "}" that brings the depth back to 0, or 0.
RECURSIVE balancedEnd(_, _, _)
balancedEnd(chars, index, depth) ==
  IF index > Len(chars) THEN 0
  ELSE IF chars[index] = "{" THEN balancedEnd(chars, index + 1, depth + 1)
  ELSE IF chars[index] = "}"
    THEN (IF depth - 1 = 0 THEN index ELSE balancedEnd(chars, index + 1, depth - 1))
  ELSE balancedEnd(chars, index + 1, depth)

\* The scan of lines 20-31 made aware of string literals: braces between two quotes
\* are not counted.
RECURSIVE balancedEndOutsideStrings(_, _, _, _)
balancedEndOutsideStrings(chars, index, depth, quoted) ==
  IF index > Len(chars) THEN 0
  ELSE IF chars[index] = "\"" THEN balancedEndOutsideStrings(chars, index + 1, depth, ~quoted)
  ELSE IF quoted THEN balancedEndOutsideStrings(chars, index + 1, depth, quoted)
  ELSE IF chars[index] = "{" THEN balancedEndOutsideStrings(chars, index + 1, depth + 1, quoted)
  ELSE IF chars[index] = "}"
    THEN (IF depth - 1 = 0 THEN index
          ELSE balancedEndOutsideStrings(chars, index + 1, depth - 1, quoted))
  ELSE balancedEndOutsideStrings(chars, index + 1, depth, quoted)

\* string | null
NullString == [isNull |-> TRUE, chars |-> <<>>]
StringOf(chars) == [isNull |-> FALSE, chars |-> chars]

\* Lines 14-34 with a scan that skips string literals.
firstBalancedSliceOutsideStrings(chars) ==
  LET start == indexOf(chars, "{")
      end == balancedEndOutsideStrings(chars, start, 0, FALSE)
  IN IF start = 0 \/ end = 0 THEN NullString ELSE StringOf(SubSeq(chars, start, end))

\* Lines 14-34 on the characters of the input.
firstBalancedSlice(chars) ==
  LET start == indexOf(chars, "{")
      end == balancedEnd(chars, start, 0)
  IN IF start = 0 \/ end = 0 THEN NullString ELSE StringOf(SubSeq(chars, start, end))

NoCandidate == Text("null", EmptyObject)

\* Line 14 finding no candidate at all.
extractFirstBalancedJsonObjectNever(input) == NoCandidate

extractFirstBalancedJsonObject(input) ==
  LET slice == firstBalancedSlice(braces(input))
  IN IF slice.isNull THEN NoCandidate
     ELSE IF Len(slice.chars) < Len(braces(input)) THEN Text("cut", input.val)
     ELSE IF input.form = "trailing_prose" THEN Text("strict", input.val)
     ELSE IF input.form = "unkeyed_prose" THEN Text("unkeyed", input.val)
     ELSE input

\* The steps of lines 42-53, by the call each makes first.
StrictParse == "JSON.parse"
WholeTextRepair == "jsonrepair"
Extraction == "extractFirstBalancedJsonObject"

\* Lines 42-53 with the repair pass run on every text, before the strict parse.
parseJsonWithRepairRepairFirst(raw) ==
  LET normalized == unwrapMarkdownCodeFence(raw)
      candidate == extractFirstBalancedJsonObject(normalized)
  IN IF normalized.form = "empty"
       THEN [ok |-> FALSE, error |-> "Empty JSON string", value |-> EmptyObject,
             tried |-> <<>>]
     ELSE IF jsonrepair(normalized).ok
       THEN [ok |-> TRUE, error |-> "", value |-> jsonrepair(normalized).text.val,
             tried |-> <<WholeTextRepair>>]
     ELSE IF candidate = NoCandidate
       THEN [ok |-> FALSE, error |-> "No JSON object found", value |-> EmptyObject,
             tried |-> <<WholeTextRepair, Extraction>>]
     ELSE IF jsonrepair(candidate).ok
       THEN [ok |-> TRUE, error |-> "", value |-> jsonrepair(candidate).text.val,
             tried |-> <<WholeTextRepair, Extraction>>]
     ELSE [ok |-> FALSE, error |-> jsonrepair(candidate).error, value |-> EmptyObject,
           tried |-> <<WholeTextRepair, Extraction>>]

\* Lines 36-55; `tried` lists the steps the call went through, in order.
parseJsonWithRepair(raw) ==
  LET normalized == unwrapMarkdownCodeFence(raw)
      candidate == extractFirstBalancedJsonObject(normalized)
  IN IF normalized.form = "empty"
       THEN [ok |-> FALSE, error |-> "Empty JSON string", value |-> EmptyObject,
             tried |-> <<>>]
     ELSE IF JSONparse(normalized)
       THEN [ok |-> TRUE, error |-> "", value |-> normalized.val,
             tried |-> <<StrictParse>>]
     ELSE IF jsonrepair(normalized).ok
       THEN [ok |-> TRUE, error |-> "", value |-> jsonrepair(normalized).text.val,
             tried |-> <<StrictParse, WholeTextRepair>>]
     ELSE IF candidate = NoCandidate
       THEN [ok |-> FALSE, error |-> "No JSON object found", value |-> EmptyObject,
             tried |-> <<StrictParse, WholeTextRepair, Extraction>>]
     ELSE IF jsonrepair(candidate).ok
       THEN [ok |-> TRUE, error |-> "", value |-> jsonrepair(candidate).text.val,
             tried |-> <<StrictParse, WholeTextRepair, Extraction>>]
     ELSE [ok |-> FALSE, error |-> jsonrepair(candidate).error, value |-> EmptyObject,
           tried |-> <<StrictParse, WholeTextRepair, Extraction>>]

toJsonObject(value, label) ==
  IF ~isJsonObject(value)
    THEN [ok |-> FALSE, error |-> label \o " must be a JSON object", value |-> EmptyObject]
    ELSE [ok |-> TRUE, error |-> "", value |-> value]

parseObjectWithRepair(raw, label) ==
  IF ~parseJsonWithRepair(raw).ok THEN parseJsonWithRepair(raw)
  ELSE toJsonObject(parseJsonWithRepair(raw).value, label)

(***************************************************************************)
(* Intent protocol (src/src/core/intents.ts).                              *)
(***************************************************************************)
\* toolIntentSchema without the superRefine of lines 15-39.
toolIntentIssuesUnrefined(value) ==
  IF ~isJsonObject(value) THEN <<"expected object">>
  ELSE IF ~Has(value, "action") \/ value.action \notin {"call_tool", "respond"}
    THEN <<"expected one of call_tool|respond">>
  ELSE IF Has(value, "args") /\ ~isJsonObject(value.args) THEN <<"expected record">>
  ELSE <<>>

toolIntentIssues(value) ==
  IF ~isJsonObject(value) THEN <<"expected object">>
  ELSE IF ~Has(value, "action") \/ value.action \notin {"call_tool", "respond"}
    THEN <<"expected one of call_tool|respond">>
  ELSE IF Has(value, "args") /\ ~isJsonObject(value.args) THEN <<"expected record">>
  ELSE (IF value.action = "call_tool" /\ ~Truthy(value, "toolName")
          THEN <<"toolName is required when action=call_tool">> ELSE <<>>)
    \o (IF value.action = "call_tool" /\ ~Has(value, "args")
          THEN <<"args is required when action=call_tool">> ELSE <<>>)
    \o (IF value.action = "respond" /\ ~Truthy(value, "response")
          THEN <<"response is required when action=respond">> ELSE <<>>)

parseToolIntentText(text) ==
  LET parsed == parseJsonWithRepair(text)
  IN IF ~parsed.ok THEN [ok |-> FALSE, error |-> parsed.error, intent |-> EmptyObject]
     ELSE IF toolIntentIssues(parsed.value) # <<>>
       THEN [ok |-> FALSE, error |-> JoinSemicolon(toolIntentIssues(parsed.value)),
             intent |-> EmptyObject]
     ELSE [ok |-> TRUE, error |-> "", intent |-> parsed.value]

finalResponseIssues(value) ==
  IF ~isJsonObject(value) THEN <<"expected object">>
  ELSE (IF ~Has(value, "action") \/ value.action # "respond"
          THEN <<"expected respond">> ELSE <<>>)
    \o (IF ~Has(value, "response") THEN <<"expected string, received undefined">> ELSE <<>>)

parseFinalResponseText(text) ==
  LET parsed == parseJsonWithRepair(text)
  IN IF ~parsed.ok THEN [ok |-> FALSE, error |-> parsed.error, response |-> ""]
     ELSE IF finalResponseIssues(parsed.value) # <<>>
       THEN [ok |-> FALSE, error |-> JoinSemicolon(finalResponseIssues(parsed.value)),
             response |-> ""]
     ELSE [ok |-> TRUE, error |-> "", response |-> parsed.value.response]

(***************************************************************************)
(* The model client's repertoire: what generateContent may resolve to for  *)
(* each kind of request (ModelResult = text, functionCalls, thoughts, raw),*)
(* or it rejects.                                                          *)
(***************************************************************************)
respondIntent(response) == [json |-> "object", action |-> "respond", response |-> response]
callToolIntent(toolName, args) ==
  [json |-> "object", action |-> "call_tool", toolName |-> toolName, args |-> args]

functionCallPart(name, args, signature) ==
  [functionCall |-> [name |-> name, args |-> args], thoughtSignature |-> signature]
RawEmpty == [json |-> "object"]
RawNoCandidates == [json |-> "object", candidates |-> <<>>]
RawTextOnly ==
  [json |-> "object",
   candidates |-> <<[content |-> [json |-> "object", role |-> "model",
                                  parts |-> <<[text |-> "thinking"]>>]]>>]
RawWithCall(name, args, signature) ==
  [json |-> "object",
   candidates |-> <<[content |-> [json |-> "object", role |-> "model",
                                  parts |-> <<functionCallPart(name, args, signature)>>]]>>]

ModelResult(text, functionCalls, thoughts, raw) ==
  [text |-> text, functionCalls |-> functionCalls, thoughts |-> thoughts, raw |-> raw]

\* Plain (non-JSON) answer texts of a native-calling turn.
PlainText(chars) == [form |-> "plain", val |-> [json |-> "string", chars |-> chars]]
\* String.prototype.trim on the plain texts of the repertoire.
trim(chars) == IF chars \in {"", " ", "  "} THEN "" ELSE chars
textIsBlank(text) == text.form = "empty" \/ (text.form = "plain" /\ trim(text.val.chars) = "")
NoText == EmptyText

IntentResponses ==
  { ModelResult(Text("strict", respondIntent("Direct answer")), <<>>, <<>>, RawEmpty),
    ModelResult(Text("trailing_comma", callToolIntent("sum_numbers", ArgsSum12)),
                <<>>, <<"plan">>, RawEmpty),
    ModelResult(Text("strict", callToolIntent("sort_numbers", ArgsSum12)), <<>>, <<>>, RawEmpty),
    ModelResult(Text("fenced", callToolIntent("sum_numbers", ArgsNonNumeric)),
                <<>>, <<>>, RawEmpty),
    ModelResult(Text("strict", callToolIntent(UnknownToolName, ArgsSum12)), <<>>, <<>>, RawEmpty),
    ModelResult(Text("strict", [json |-> "object", action |-> "respond"]), <<>>, <<>>, RawEmpty),
    ModelResult(Text("strict", [json |-> "object", action |-> "call_tool",
                                toolName |-> "sum_numbers"]), <<>>, <<>>, RawEmpty),
    ModelResult(Text("strict", [json |-> "object", action |-> "call_tool",
                                args |-> ArgsSum12]), <<>>, <<>>, RawEmpty),
    ModelResult(Text("fenced", callToolIntent("", ArgsSum12)), <<>>, <<>>, RawEmpty),
    ModelResult(Text("strict", respondIntent("")), <<>>, <<>>, RawEmpty),
    ModelResult(EmptyText, <<>>, <<>>, RawEmpty) }

FinalResponses ==
  { ModelResult(Text("strict", respondIntent("Total is 3")), <<>>, <<"wrap up">>, RawEmpty),
    ModelResult(Text("fenced", respondIntent("Sorted.")), <<>>, <<>>, RawEmpty),
    ModelResult(Text("strict", JsonArray), <<>>, <<>>, RawEmpty),
    ModelResult(EmptyText, <<>>, <<>>, RawEmpty) }

RepairResponses ==
  { ModelResult(Text("strict", ArgsSum12), <<>>, <<"fixing">>, RawEmpty),
    ModelResult(Text("trailing_comma", ArgsDesc21), <<>>, <<>>, RawEmpty),
    ModelResult(Text("strict", ArgsNonNumeric), <<>>, <<>>, RawEmpty),
    ModelResult(Text("strict", JsonArray), <<>>, <<>>, RawEmpty),
    ModelResult(EmptyText, <<>>, <<>>, RawEmpty) }

\* Function calls of the single-tool-router: one declared function, dispatch_tool.
DISPATCH_TOOL_NAME == "dispatch_tool"
dispatchCall(id, toolName, argumentsJson) ==
  [id |-> id, name |-> DISPATCH_TOOL_NAME,
   args |-> [json |-> "object", toolName |-> toolName, argumentsJson |-> argumentsJson]]
NoId == "undefined"

DispatchResponses ==
  { ModelResult(PlainText("The total is 3."), <<>>, <<>>, RawTextOnly),
    ModelResult(PlainText("  "), <<>>, <<"hmm">>, RawEmpty),
    ModelResult(NoText,
                <<dispatchCall("call-a", "sum_numbers", Text("strict", ArgsSum12))>>, <<>>,
                RawWithCall(DISPATCH_TOOL_NAME,
                            [json |-> "object", toolName |-> "sum_numbers",
                             argumentsJson |-> Text("strict", ArgsSum12)], "sig-1")),
    ModelResult(NoText,
                <<dispatchCall(NoId, "sort_numbers", Text("trailing_comma", ArgsSum12)),
                  dispatchCall("call-b", "sum_numbers", Text("strict", ArgsSum12))>>, <<>>,
                RawEmpty),
    ModelResult(NoText,
                <<dispatchCall(NoId, "sum_numbers", Text("trailing_comma", ArgsNonNumeric))>>,
                <<>>, RawNoCandidates),
    ModelResult(NoText,
                <<dispatchCall("call-c", UnknownToolName, Text("strict", ArgsSum12))>>, <<>>,
                RawEmpty),
    ModelResult(NoText,
                <<dispatchCall("call-d", "sum_numbers", Text("strict", JsonArray))>>, <<>>,
                RawEmpty),
    ModelResult(NoText,
                <<[id |-> NoId, name |-> DISPATCH_TOOL_NAME,
                   args |-> [json |-> "object", toolName |-> "sum_numbers"]]>>, <<>>,
                RawEmpty) }

\* Function calls of hybrid-repair: args is a JSON object, a string holding JSON, or absent.
Undefined == [json |-> "undefined"]
StringArgs(source) == [json |-> "string", source |-> source]
nativeCall(id, name, args) == [id |-> id, name |-> name, args |-> args]

HybridResponses ==
  { ModelResult(PlainText("The total is 3."), <<>>, <<>>, RawTextOnly),
    ModelResult(PlainText(""), <<>>, <<>>, RawEmpty),
    ModelResult(NoText, <<nativeCall("call-a", "sum_numbers", ArgsSum12)>>, <<>>,
                RawWithCall("sum_numbers", ArgsSum12, "sig-1")),
    ModelResult(NoText,
                <<nativeCall(NoId, "sort_numbers", StringArgs(Text("trailing_comma", ArgsSum12))),
                  nativeCall("call-b", "sum_numbers", ArgsSum12)>>, <<>>, RawEmpty),
    ModelResult(NoText, <<nativeCall(NoId, "sum_numbers", ArgsNonNumeric)>>, <<>>,
                RawNoCandidates),
    ModelResult(NoText, <<nativeCall("call-c", "sum_numbers", Undefined)>>, <<>>, RawEmpty),
    ModelResult(NoText, <<nativeCall("call-f", "sum_numbers", JsonArray)>>, <<>>, RawEmpty),
    ModelResult(NoText, <<nativeCall("call-g", "sort_numbers", StringArgs(EmptyText))>>, <<>>,
                RawEmpty),
    ModelResult(NoText, <<nativeCall("call-d", UnknownToolName, ArgsSum12)>>, <<>>, RawEmpty),
    ModelResult(NoText, <<nativeCall("call-e", "undefined", ArgsSum12)>>, <<>>, RawEmpty) }

\* The well-formed answers of the steady client.
SteadyIntent ==
  ModelResult(Text("trailing_comma", callToolIntent("sum_numbers", ArgsSum12)),
              <<>>, <<"plan">>, RawEmpty)
SteadyFinal ==
  ModelResult(Text("strict", respondIntent("Total is 3")), <<>>, <<"wrap up">>, RawEmpty)
SteadyRepair == ModelResult(Text("strict", ArgsSum12), <<>>, <<"fixing">>, RawEmpty)
SteadyDispatch(history) ==
  IF Len(history) <= 1
    THEN ModelResult(NoText,
                <<dispatchCall("call-a", "sum_numbers", Text("strict", ArgsSum12))>>, <<>>,
                RawWithCall(DISPATCH_TOOL_NAME,
                            [json |-> "object", toolName |-> "sum_numbers",
                             argumentsJson |-> Text("strict", ArgsSum12)], "sig-1"))
    ELSE ModelResult(PlainText(""), <<>>, <<"hmm">>, RawEmpty)
SteadyHybrid(history) ==
  IF Len(history) <= 1
    THEN ModelResult(NoText, <<nativeCall("call-a", "sum_numbers", ArgsSum12)>>, <<>>,
                     RawWithCall("sum_numbers", ArgsSum12, "sig-1"))
    ELSE ModelResult(PlainText(""), <<>>, <<>>, RawEmpty)

ClientErrorMessage == "transient failure"

(***************************************************************************)
(* State.                                                                  *)
(***************************************************************************)
VARIABLES
  config,          \* the parsed command line (CliOptions), and the environment
  bpc,             \* main: benchmark mode "loop" | "running" | "done",
                   \*       single mode "single" | "single_running" | "single_done"
  cell,            \* runBenchmark: loop variables [m, s, p, iteration] (1-based indices)
  records,         \* runBenchmark: records
  report,          \* runBenchmark: the returned BenchmarkResult (totalRuns, records)
  rpc,             \* runStrategy: "idle" | "loop" | "attempt" | "returned" | "thrown"
  attempt,         \* runStrategy: attempt
  errors,          \* runStrategy: errors
  lastError,       \* runStrategy: lastError
  outcome,         \* runStrategy: what it returned or threw
  pc,              \* runner: position (the await it is suspended at, or how it ended)
  turn,            \* runner: turn
  toolCalls,       \* runner: toolCalls
  trace,           \* runner: trace
  contents,        \* runner: contents (conversation history)
  pending,         \* runner: locals alive across the repair await
  finalText,       \* runner: RunnerResult.finalText once returned
  runnerError,     \* runner: message of the error it threw
  inFlight,        \* observer: model calls issued and not yet settled
  activeRuns,      \* observer: runStrategy invocations entered and not yet left
  activeAttempts,  \* observer: runStrategyOnce invocations entered and not yet left
  startedAttempts, \* observer: attempts started by the current runStrategy invocation
  cellAttempts,    \* observer: startedAttempts of every finished cell, in order
  requests,        \* observer: kinds of the model requests issued in this attempt
  addressed,       \* observer: the model each of these requests was addressed to
  sent,            \* observer: the contents each of these requests carried
  responses,       \* observer: the ModelResults received in this attempt, in order
  validated,       \* observer: <<attempt, name, args>> returned ok by validateArgs
  executed,        \* observer: executions [attempt, toolName, args] of this runStrategy call
  gpc,             \* GoogleModelClient.generateContent: "idle" | "loop" | "awaiting" |
                   \*   "sleeping" | "resolved" | "rejected"
  retryAttempt,    \* generateWithRetry: attempt (the for-loop variable)
  callError,       \* generateWithRetry: lastError (the error caught last)
  invocations,     \* observer: ai.models.generateContent invocations of this model call
  sleeps,          \* observer: the delays slept within this model call, in order
  libCall,         \* a library function applied on its own: [fn, ...arguments]
  libResult        \* what that application returned or threw

benchVars == <<config, bpc, cell, records, report>>
rsVars == <<rpc, attempt, errors, lastError, outcome>>
runnerVars == <<pc, turn, toolCalls, trace, contents, pending, finalText, runnerError>>
observerVars == <<inFlight, activeRuns, activeAttempts, startedAttempts, cellAttempts,
                  requests, addressed, sent, responses, validated, executed>>
clientVars == <<gpc, retryAttempt, callError, invocations, sleeps>>
libVars == <<libCall, libResult>>
vars == <<benchVars, rsVars, runnerVars, observerVars, clientVars, libVars>>

(***************************************************************************)
(* Configuration.                                                          *)
(***************************************************************************)
STRATEGIES == <<"structured-json", "single-tool-router", "hybrid-repair">>
PROMPT_PRESETS ==
  <<[id |-> "sum-and-uppercase",
     prompt |-> "Use tools when needed: add 9, 12, and 30, then give me the uppercase word done."],
    [id |-> "timezone-check",
     prompt |-> "What is the current time for Tokyo locale and explain in one sentence?"]>>

Absent == [has |-> FALSE, val |-> 0]
Given(n) == [has |-> TRUE, val |-> n]
\* JavaScript `x ?? d`
Nullish(x, d) == IF x.has THEN x.val ELSE d

Max(a, b) == IF a >= b THEN a ELSE b
Min(a, b) == IF a <= b THEN a ELSE b

ROUTER_DEFAULT_MAX_TURNS == 4
HYBRID_DEFAULT_MAX_TURNS == 3

StrategyLists ==
  {<<STRATEGIES[i]>> : i \in 1..3}
    \cup {<<STRATEGIES[i], STRATEGIES[j]>> : i \in 1..3, j \in 1..3}
    \cup {STRATEGIES}
ModelLists == {<<"model-a">>, <<"model-a", "model-b">>}
PresetLists == {<<PROMPT_PRESETS[1]>>, PROMPT_PRESETS}

cellCount(c) == Len(c.models) * Len(c.strategies) * Len(c.presets) * c.iterations

uses(c, strategy) == \E i \in 1..Len(c.strategies) : c.strategies[i] = strategy

\* A turn budget is drawn only for a strategy the configuration runs; the steady
\* client runs on the default budgets.
TurnBudgets(c, strategy) ==
  IF ~uses(c, strategy) THEN {Absent}
  ELSE IF c.client = "any" THEN {Given(n) : n \in 0..MaxTurnsBound}
  ELSE {Absent}

RetryBudgets == {Absent} \cup {Given(n) : n \in -1..MaxRetriesBound}

(***************************************************************************)
(* The model client is the environment.  Client "any" may answer every     *)
(* request with any result of its repertoire or reject it; it is explored  *)
(* on benchmarks of one cell.  Client "steady" is a well-behaved model     *)
(* behind a flaky transport: every call either rejects or resolves to the  *)
(* well-formed answer for that request; it is explored on benchmarks of up *)
(* to MaxCells cells.                                                      *)
(***************************************************************************)
AnyClientConfigs ==
  { c \in [models : {<<"model-a">>}, strategies : {<<STRATEGIES[i]>> : i \in 1..3},
           presets : {<<PROMPT_PRESETS[1]>>}, iterations : {1},
           maxRetries : RetryBudgets,
           routerMaxTurns : {Absent} \cup {Given(n) : n \in 0..MaxTurnsBound},
           hybridMaxTurns : {Absent} \cup {Given(n) : n \in 0..MaxTurnsBound},
           hasApiKey : BOOLEAN, client : {"any"},
           mode : {"benchmark"}, repairModel : {"undefined"}] :
      /\ c.routerMaxTurns \in TurnBudgets(c, "single-tool-router")
      /\ c.hybridMaxTurns \in TurnBudgets(c, "hybrid-repair") }

SteadyClientConfigs ==
  { c \in [models : ModelLists, strategies : StrategyLists, presets : PresetLists,
           iterations : 1..MaxIterations,
           maxRetries : RetryBudgets,
           routerMaxTurns : {Absent}, hybridMaxTurns : {Absent},
           hasApiKey : {TRUE}, client : {"steady"},
           mode : {"benchmark"}, repairModel : {"undefined"}] :
      /\ cellCount(c) <= MaxCells
      /\ c.routerMaxTurns \in TurnBudgets(c, "single-tool-router")
      /\ c.hybridMaxTurns \in TurnBudgets(c, "hybrid-repair") }

\* Single mode (index.ts, options.mode = "single"): one runStrategy call, which alone
\* can carry --repair-model; explored for the hybrid-repair strategy it applies to.
SingleRunConfigs ==
  { c \in [models : {<<"model-a">>}, strategies : {<<"hybrid-repair">>},
           presets : {<<PROMPT_PRESETS[1]>>}, iterations : {1},
           maxRetries : RetryBudgets,
           routerMaxTurns : {Absent},
           hybridMaxTurns : {Absent} \cup {Given(n) : n \in 0..MaxTurnsBound},
           hasApiKey : {TRUE}, client : {"any"},
           mode : {"single"}, repairModel : {"undefined", "model-r"}] :
      c.hybridMaxTurns \in TurnBudgets(c, "hybrid-repair") }

Configs == AnyClientConfigs \cup SteadyClientConfigs \cup SingleRunConfigs

\* No client passed in (how index.ts calls runBenchmark): runStrategyOnce builds a
\* GoogleModelClient; explored for one structured-json cell over a well-behaved model.
GoogleClientConfigs ==
  [models : {<<"model-a">>}, strategies : {<<"structured-json">>},
   presets : {<<PROMPT_PRESETS[1]>>}, iterations : {1},
   maxRetries : RetryBudgets,
   routerMaxTurns : {Absent}, hybridMaxTurns : {Absent},
   hasApiKey : {TRUE}, client : {"google"},
   mode : {"benchmark"}, repairModel : {"undefined"}]

\* One run of a turn-loop runner: one cell of single-tool-router or hybrid-repair, no
\* retry, on the default turn budget or a given one, against a model that may answer
\* anything.
TurnLoopConfigs ==
  { c \in [models : {<<"model-a">>},
           strategies : {<<"single-tool-router">>, <<"hybrid-repair">>},
           presets : {<<PROMPT_PRESETS[1]>>}, iterations : {1},
           maxRetries : {Given(0)},
           routerMaxTurns : {Absent} \cup {Given(n) : n \in 0..MaxTurnsBound},
           hybridMaxTurns : {Absent} \cup {Given(n) : n \in 0..MaxTurnsBound},
           hasApiKey : {TRUE}, client : {"any"},
           mode : {"benchmark"}, repairModel : {"undefined"}] :
      /\ ~uses(c, "single-tool-router") => c.routerMaxTurns = Absent
      /\ ~uses(c, "hybrid-repair") => c.hybridMaxTurns = Absent }

currentModel == config.models[cell.m]
currentStrategy == config.strategies[cell.s]
currentPreset == config.presets[cell.p]
userPrompt == currentPreset.prompt

NoOutcome == [kind |-> "none"]
NoPending == [active |-> FALSE]
NoResponse == ModelResult(EmptyText, <<>>, <<>>, RawEmpty)
FirstCell == [m |-> 1, s |-> 1, p |-> 1, iteration |-> 1]

NoError == <<>>
NoCall == [fn |-> "none"]
NoResult == [kind |-> "none"]

clientIdle ==
  /\ gpc = "idle"
  /\ retryAttempt = 0
  /\ callError = NoError
  /\ invocations = 0
  /\ sleeps = <<>>

libIdle ==
  /\ libCall = NoCall
  /\ libResult = NoResult

Program(configs) ==
  /\ config \in configs
  /\ bpc = IF config.mode = "single" THEN "single" ELSE "loop"
  /\ cell = FirstCell
  /\ records = <<>>
  /\ report = [returned |-> FALSE]
  /\ rpc = "idle"
  /\ attempt = 0
  /\ errors = <<>>
  /\ lastError = ""
  /\ outcome = NoOutcome
  /\ pc = "idle"
  /\ turn = 0
  /\ toolCalls = <<>>
  /\ trace = <<>>
  /\ contents = <<>>
  /\ pending = NoPending
  /\ finalText = ""
  /\ runnerError = ""
  /\ inFlight = 0
  /\ activeRuns = 0
  /\ activeAttempts = 0
  /\ startedAttempts = 0
  /\ cellAttempts = <<>>
  /\ requests = <<>>
  /\ addressed = <<>>
  /\ sent = <<>>
  /\ responses = <<>>
  /\ validated = {}
  /\ executed = <<>>
  /\ clientIdle

Init == Program(Configs) /\ libIdle

(***************************************************************************)
(* Shared pieces of the three runners.                                     *)
(***************************************************************************)
registry == createDemoToolRegistry

traceStep(kind, detail) == [kind |-> kind, detail |-> detail]

appendThoughtTrace(tr, step, thoughts) ==
  tr \o [i \in 1..Len(thoughts) |->
           [kind |-> "thought", detail |-> step \o "_thought", text |-> thoughts[i]]]

createUserContent(prompt) == [role |-> "user", kind |-> "text", prompt |-> prompt]

\* The `contents` of a request: the conversation history (the runner's contents array)
\* or a prompt string, kept as the values it is joined from.
NoContents == [kind |-> "none"]
\* contents: only the user prompt is sent, whatever the turn.
historyContentsPromptOnly(history) == [kind |-> "history", history |-> <<history[1]>>]
\* contents: the runner's contents array as it is when the request is made.
historyContents(history) == [kind |-> "history", history |-> history]
buildToolSelectionPrompt(prompt) == [kind |-> "tool_selection_prompt", userPrompt |-> prompt]
buildFinalResponsePrompt(prompt, toolName, toolArgs, toolResult) ==
  [kind |-> "final_response_prompt", userPrompt |-> prompt, toolName |-> toolName,
   toolArgs |-> toolArgs, toolResult |-> toolResult]
repairPrompt(toolName, prompt, brokenArgs) ==
  [kind |-> "repair_prompt", toolName |-> toolName, userPrompt |-> prompt,
   brokenArgs |-> brokenArgs]

\* The locals of a fresh runner invocation.
StaleToolCalls == toolCalls
InitialToolCalls == <<>>
StaleTrace == trace
InitialTrace == <<>>

\* A runner step leaves everything as it is unless stated otherwise.
Keep ==
  [pc |-> pc, turn |-> turn, toolCalls |-> toolCalls, trace |-> trace,
   contents |-> contents, pending |-> pending, finalText |-> finalText,
   runnerError |-> runnerError,
   issue |-> <<>>, to |-> currentModel, asks |-> NoContents,
   validatedAdd |-> {}, executedAdd |-> <<>>]

Return(tr, text) == [Keep EXCEPT !.pc = "returned", !.trace = tr, !.finalText = text,
                                 !.pending = NoPending]
Throw(tr, message) == [Keep EXCEPT !.pc = "threw", !.trace = tr, !.runnerError = message,
                                   !.pending = NoPending]

\* client.generateContent of a runner: the fake clients (config.client given) settle
\* on their own, GoogleModelClient (config.client undefined) after generateWithRetry.
usesGoogleModelClient == config.client = "google"

modelCallResolved == usesGoogleModelClient => gpc = "resolved"
modelCallRejected == usesGoogleModelClient => gpc = "rejected"

\* The runner's step issued `issued` model calls, after any call it awaited has settled.
clientAfter(issued) ==
  IF ~usesGoogleModelClient THEN UNCHANGED clientVars
  ELSE IF issued > 0
    THEN /\ gpc' = "loop"
         /\ retryAttempt' = 0
         /\ callError' = NoError
         /\ invocations' = 0
         /\ sleeps' = <<>>
  ELSE /\ gpc' = "idle"
       /\ UNCHANGED <<retryAttempt, callError, invocations, sleeps>>

\* The runner moves by effect e; `settled` model calls resolved with resp.
Apply(e, settled, resp) ==
  /\ pc' = e.pc
  /\ turn' = e.turn
  /\ toolCalls' = e.toolCalls
  /\ trace' = e.trace
  /\ contents' = e.contents
  /\ pending' = e.pending
  /\ finalText' = e.finalText
  /\ runnerError' = e.runnerError
  /\ settled > 0 => modelCallResolved
  /\ clientAfter(Len(e.issue))
  /\ inFlight' = inFlight - settled + Len(e.issue)
  /\ requests' = requests \o e.issue
  /\ addressed' = addressed \o [i \in 1..Len(e.issue) |-> e.to]
  /\ sent' = sent \o [i \in 1..Len(e.issue) |-> e.asks]
  /\ responses' = IF settled > 0 THEN Append(responses, resp) ELSE responses
  /\ validated' = validated \cup e.validatedAdd
  /\ executed' = executed \o e.executedAdd
  /\ UNCHANGED <<libVars, benchVars, rsVars, activeRuns, activeAttempts, startedAttempts,
                 cellAttempts>>

jsonStringify(result) ==
  IF Has(result, "total") THEN "{\"total\": " \o ToString(result.total) \o "}"
  ELSE "{\"sorted\": " \o ToString(result.sorted) \o ", \"order\": \"" \o result.order \o "\"}"

plainChars(text) == IF text.form = "plain" THEN text.val.chars ELSE ""

lastOf(calls) == calls[Len(calls)]

\* toolCalls[0] taken for the finalization.
lastCallIsFirst == toolCalls[1]

\* const lastCall = toolCalls[toolCalls.length - 1]
lastCall == lastOf(toolCalls)

\* What the configured client may resolve a request to.
offered(repertoire, steadyAnswer) ==
  IF config.client = "any" THEN repertoire ELSE {steadyAnswer}

okPairs(name, validation) ==
  IF validation.ok THEN {<<attempt, name, validation.args>>} ELSE {}

(***************************************************************************)
(* Structured-JSON runner (src/src/runners/structured-json-runner.ts).     *)
(***************************************************************************)
\* Lines 75-88 with the raw intent args handed to execute.
structuredToolCallUnvalidated(intent) ==
  LET validation == validateArgs(registry, intent.toolName, intent.args)
      run == execute(registry, intent.toolName, intent.args)
  IN IF ~validation.ok
       THEN [ok |-> FALSE, error |-> "Tool args validation failed: " \o validation.error]
     ELSE IF ~run.ok THEN [ok |-> FALSE, error |-> run.error]
     ELSE [ok |-> TRUE, error |-> "",
           call |-> [toolName |-> intent.toolName, args |-> intent.args,
                     result |-> run.result, repaired |-> FALSE]]

\* Lines 75-88 with a repair of the invalid args instead of the fatal error.
structuredToolCallLenient(intent) ==
  LET validation == validateArgs(registry, intent.toolName, intent.args)
      args == IF validation.ok THEN validation.args
              ELSE validateArgs(registry, "sum_numbers", ArgsSum12).args
      name == IF validation.ok THEN intent.toolName ELSE "sum_numbers"
      run == execute(registry, name, args)
  IN [ok |-> TRUE, error |-> "",
      call |-> [toolName |-> name, args |-> args, result |-> run.result,
                repaired |-> ~validation.ok]]

\* Lines 75-88: validate, execute with the validated args, build the ToolCallRecord.
structuredToolCall(intent) ==
  LET validation == validateArgs(registry, intent.toolName, intent.args)
      run == execute(registry, intent.toolName, validation.args)
  IN IF ~validation.ok
       THEN [ok |-> FALSE, error |-> "Tool args validation failed: " \o validation.error]
     ELSE IF ~run.ok THEN [ok |-> FALSE, error |-> run.error]
     ELSE [ok |-> TRUE, error |-> "",
           call |-> [toolName |-> intent.toolName, args |-> validation.args,
                     result |-> run.result, repaired |-> FALSE]]

runStructuredJsonRunner_requestIntent ==
  /\ rpc = "attempt"
  /\ pc = "start"
  /\ currentStrategy = "structured-json"
  /\ Apply([Keep EXCEPT !.pc = "sj_await_intent",
                        !.trace = Append(InitialTrace, traceStep("llm", "request_tool_intent")),
                        !.toolCalls = InitialToolCalls,
                        !.issue = <<"tool_intent">>,
                        !.asks = buildToolSelectionPrompt(userPrompt)],
           0, NoResponse)

structuredOnIntent(response) ==
  LET trace1 == Append(appendThoughtTrace(trace, "intent", response.thoughts),
                       traceStep("llm", "received_tool_intent"))
      parsed == parseToolIntentText(response.text)
      intent == parsed.intent
      trace2 == Append(trace1, traceStep("intent", "parsed_intent"))
      step == structuredToolCall(intent)
  IN IF ~parsed.ok THEN Throw(trace1, parsed.error)
     ELSE IF intent.action = "respond"
       THEN (IF ~Truthy(intent, "response")
               THEN Throw(trace2, "Missing response for action=respond")
               ELSE Return(trace2, intent.response))
     ELSE IF ~Truthy(intent, "toolName") \/ ~Has(intent, "args")
       THEN Throw(trace2, "Missing toolName/args for action=call_tool")
     ELSE IF ~step.ok
       THEN [Throw(trace2, step.error) EXCEPT
               !.validatedAdd =
                 okPairs(intent.toolName, validateArgs(registry, intent.toolName, intent.args))]
     ELSE [Keep EXCEPT
             !.pc = "sj_await_final",
             !.toolCalls = Append(toolCalls, step.call),
             !.trace = Append(trace2, traceStep("llm", "request_final_response")),
             !.issue = <<"final_response">>,
             !.asks = buildFinalResponsePrompt(userPrompt, intent.toolName, step.call.args,
                                                step.call.result),
             !.validatedAdd =
               okPairs(intent.toolName, validateArgs(registry, intent.toolName, intent.args)),
             !.executedAdd = <<[attempt |-> attempt, toolName |-> step.call.toolName,
                                args |-> step.call.args]>>]

runStructuredJsonRunner_onIntent ==
  /\ pc = "sj_await_intent"
  /\ \E response \in offered(IntentResponses, SteadyIntent) :
       Apply(structuredOnIntent(response), 1, response)

\* Line 111 returning the tool result instead of the parsed finalization response.
structuredOnFinalEchoesTool(response) ==
  Return(appendThoughtTrace(trace, "finalize", response.thoughts),
         jsonStringify(lastOf(toolCalls).result))

structuredOnFinal(response) ==
  LET trace1 == appendThoughtTrace(trace, "finalize", response.thoughts)
      final == parseFinalResponseText(response.text)
  IN IF ~final.ok THEN Throw(trace1, final.error) ELSE Return(trace1, final.response)

runStructuredJsonRunner_onFinal ==
  /\ pc = "sj_await_final"
  /\ \E response \in offered(FinalResponses, SteadyFinal) :
       Apply(structuredOnFinal(response), 1, response)

(***************************************************************************)
(* Native-calling runners: what is appended to the history after a tool.   *)
(***************************************************************************)
\* src/src/core/response-utils.ts
extractFirstModelFunctionCallContent(raw) ==
  IF ~isJsonObject(raw) THEN [found |-> FALSE]
  ELSE IF ~Has(raw, "candidates") \/ Len(raw.candidates) = 0 THEN [found |-> FALSE]
  ELSE IF ~Has(raw.candidates[1], "content") THEN [found |-> FALSE]
  ELSE IF ~Has(raw.candidates[1].content, "parts") THEN [found |-> FALSE]
  ELSE IF ~\E k \in 1..Len(raw.candidates[1].content.parts) :
             Has(raw.candidates[1].content.parts[k], "functionCall")
    THEN [found |-> FALSE]
  ELSE [found |-> TRUE, content |-> raw.candidates[1].content]

createModelContentFromFunctionCall(name, args) ==
  [json |-> "object", role |-> "model",
   parts |-> <<[functionCall |-> [name |-> name, args |-> args]]>>]

\* The model turn always rebuilt from the extracted name and args.
modelFunctionCallContentRebuilt(raw, name, args) ==
  createModelContentFromFunctionCall(name, args)

modelFunctionCallContent(raw, name, args) ==
  IF extractFirstModelFunctionCallContent(raw).found
    THEN extractFirstModelFunctionCallContent(raw).content
    ELSE createModelContentFromFunctionCall(name, args)

functionResponseContent(callId, name, response) ==
  [role |-> "user", kind |-> "functionResponse", id |-> callId, name |-> name,
   response |-> response]

(***************************************************************************)
(* Single-tool-router runner (src/src/runners/single-tool-router-runner.ts)*)
(***************************************************************************)
\* Line 61 looping while turn <= maxTurns.
routerMaxTurnsInclusive == Nullish(config.routerMaxTurns, ROUTER_DEFAULT_MAX_TURNS) + 1

routerMaxTurns == Nullish(config.routerMaxTurns, ROUTER_DEFAULT_MAX_TURNS)

runSingleToolRouterRunner_start ==
  /\ rpc = "attempt"
  /\ pc = "start"
  /\ currentStrategy = "single-tool-router"
  /\ Apply([Keep EXCEPT !.pc = "str_loop", !.trace = InitialTrace,
                        !.toolCalls = InitialToolCalls,
                        !.contents = <<createUserContent(userPrompt)>>,
                        !.turn = 0],
           0, NoResponse)

runSingleToolRouterRunner_requestDispatch ==
  /\ pc = "str_loop"
  /\ turn < routerMaxTurns
  /\ Apply([Keep EXCEPT
              !.pc = "str_await_dispatch",
              !.trace = Append(trace, traceStep("llm",
                                 "turn_" \o ToString(turn) \o "_request_dispatch")),
              !.issue = <<"dispatch">>,
              !.asks = historyContents(contents)],
           0, NoResponse)

\* Lines 190-193 taking the first tool call instead of the last.
routerExhaustedTextOfFirstCall ==
  IF Len(toolCalls) > 0 THEN jsonStringify(toolCalls[1].result) ELSE "No result."

\* Lines 190-193: lastCall ? JSON.stringify(lastCall.result, null, 2) : "No result."
routerExhaustedText ==
  IF Len(toolCalls) > 0 THEN jsonStringify(lastOf(toolCalls).result) ELSE "No result."

runSingleToolRouterRunner_exhausted ==
  /\ pc = "str_loop"
  /\ turn >= routerMaxTurns
  /\ Apply(Return(trace, routerExhaustedText), 0, NoResponse)

\* Lines 162-187: execute, record, and replay the model turn with its function response.
routerExecute(tr, functionCall, raw, payload, toolName, args, repaired) ==
  LET run == execute(registry, toolName, args)
      callId == IF functionCall.id # NoId THEN functionCall.id
                ELSE "dispatch_call_" \o ToString(turn)
  IN IF ~run.ok THEN Throw(tr, run.error)
     ELSE [Keep EXCEPT
             !.pc = "str_loop",
             !.trace = tr,
             !.toolCalls = Append(toolCalls, [toolName |-> toolName, args |-> args,
                                              result |-> run.result, repaired |-> repaired]),
             !.contents = contents \o
               <<modelFunctionCallContent(raw, DISPATCH_TOOL_NAME, payload),
                 functionResponseContent(callId, DISPATCH_TOOL_NAME,
                                         [toolName |-> toolName, result |-> run.result])>>,
             !.turn = turn + 1,
             !.pending = NoPending,
             !.executedAdd = <<[attempt |-> attempt, toolName |-> toolName, args |-> args]>>]

\* The last function call of the response taken instead of the first.
lastFunctionCall(response) == response.functionCalls[Len(response.functionCalls)]

\* const functionCall = response.functionCalls[0]
firstFunctionCall(response) == response.functionCalls[1]

dispatchPayloadIssues(args) ==
  IF ~isJsonObject(args) THEN <<"expected object">>
  ELSE (IF ~Has(args, "toolName") THEN <<"expected string, received undefined">> ELSE <<>>)
    \o (IF ~Has(args, "argumentsJson") THEN <<"expected string, received undefined">>
        ELSE <<>>)

\* Lines 85-135 with the finalization taking priority over a non-empty text.
routerNoFunctionCallFinalizeFirst(trace1, response) ==
  IF Len(toolCalls) > 0
    THEN [Keep EXCEPT
            !.pc = "str_await_final",
            !.trace = Append(trace1, traceStep("llm", "finalize_after_dispatch_with_json")),
            !.issue = <<"final_response">>,
            !.asks = buildFinalResponsePrompt(userPrompt, lastCall.toolName, lastCall.args,
                                               lastCall.result)]
  ELSE IF ~textIsBlank(response.text) THEN Return(trace1, plainChars(response.text))
  ELSE Return(trace1, "Model did not provide a dispatch tool call.")

\* Lines 85-135: the turn brought no function call.
routerNoFunctionCall(trace1, response) ==
  IF ~textIsBlank(response.text) THEN Return(trace1, plainChars(response.text))
  ELSE IF Len(toolCalls) = 0
    THEN Return(trace1, "Model did not provide a dispatch tool call.")
  ELSE [Keep EXCEPT
          !.pc = "str_await_final",
          !.trace = Append(trace1, traceStep("llm", "finalize_after_dispatch_with_json")),
          !.issue = <<"final_response">>,
          !.asks = buildFinalResponsePrompt(userPrompt, lastCall.toolName, lastCall.args,
                                             lastCall.result)]

routerOnDispatch(response) ==
  LET trace1 == appendThoughtTrace(trace, "turn_" \o ToString(turn), response.thoughts)
      functionCall == firstFunctionCall(response)
      payload == functionCall.args
      maybeArgs == parseObjectWithRepair(payload.argumentsJson, "dispatch argumentsJson")
      validation == validateArgs(registry, payload.toolName, maybeArgs.value)
  IN IF Len(response.functionCalls) = 0
       THEN routerNoFunctionCall(trace1, response)
     ELSE IF dispatchPayloadIssues(payload) # <<>>
       THEN Throw(trace1, "dispatch_tool args are invalid: "
                            \o JoinSemicolon(dispatchPayloadIssues(payload)))
     ELSE IF ~maybeArgs.ok THEN Throw(trace1, maybeArgs.error)
     ELSE IF validation.ok
       THEN [routerExecute(trace1, functionCall, response.raw, payload, payload.toolName,
                           validation.args, FALSE)
               EXCEPT !.validatedAdd = okPairs(payload.toolName, validation)]
     ELSE IF ~has(registry, payload.toolName)
       \* registry.getArgsJsonSchema throws while the repair request is being built
       THEN Throw(Append(trace1, traceStep("repair",
                                   "dispatch_args_invalid_attempting_llm_repair")),
                  "Unknown tool: " \o payload.toolName)
     ELSE [Keep EXCEPT
             !.pc = "str_await_repair",
             !.trace = Append(trace1, traceStep("repair",
                                        "dispatch_args_invalid_attempting_llm_repair")),
             !.pending = [active |-> TRUE, functionCall |-> functionCall,
                          raw |-> response.raw, toolName |-> payload.toolName],
             !.issue = <<"repair">>,
             !.asks = repairPrompt(payload.toolName, userPrompt, maybeArgs.value)]

runSingleToolRouterRunner_onDispatch ==
  /\ pc = "str_await_dispatch"
  /\ \E response \in offered(DispatchResponses, SteadyDispatch(contents)) :
       Apply(routerOnDispatch(response), 1, response)

\* Lines 268-271 asking the model again when the repaired args are still invalid.
routerOnRepairAgain(response) ==
  LET trace1 == appendThoughtTrace(trace, "repair", response.thoughts)
      parsed == parseJsonWithRepair(response.text)
      repairedArgs == toJsonObject(parsed.value, "Repaired dispatch args")
      repairedValidation == validateArgs(registry, pending.toolName, repairedArgs.value)
  IN IF ~parsed.ok \/ ~repairedArgs.ok \/ ~repairedValidation.ok
       THEN [Keep EXCEPT !.trace = trace1, !.issue = <<"repair">>]
     ELSE [routerExecute(trace1, pending.functionCall, pending.raw,
                         pending.functionCall.args, pending.toolName,
                         repairedValidation.args, TRUE)
             EXCEPT !.validatedAdd = okPairs(pending.toolName, repairedValidation)]

\* Lines 268-273 returning the dispatched args instead of the repaired ones.
routerOnRepairKeepsBroken(response) ==
  LET trace1 == appendThoughtTrace(trace, "repair", response.thoughts)
      parsed == parseJsonWithRepair(response.text)
      repairedArgs == toJsonObject(parsed.value, "Repaired dispatch args")
      repairedValidation == validateArgs(registry, pending.toolName, repairedArgs.value)
      brokenArgs == parseObjectWithRepair(pending.functionCall.args.argumentsJson,
                                          "dispatch argumentsJson").value
  IN IF ~parsed.ok THEN Throw(trace1, parsed.error)
     ELSE IF ~repairedArgs.ok THEN Throw(trace1, repairedArgs.error)
     ELSE IF ~repairedValidation.ok
       THEN Throw(trace1, "Tool args validation failed: " \o repairedValidation.error)
     ELSE [routerExecute(trace1, pending.functionCall, pending.raw,
                         pending.functionCall.args, pending.toolName, brokenArgs, TRUE)
             EXCEPT !.validatedAdd = okPairs(pending.toolName, repairedValidation)]

routerOnRepair(response) ==
  LET trace1 == appendThoughtTrace(trace, "repair", response.thoughts)
      parsed == parseJsonWithRepair(response.text)
      repairedArgs == toJsonObject(parsed.value, "Repaired dispatch args")
      repairedValidation == validateArgs(registry, pending.toolName, repairedArgs.value)
  IN IF ~parsed.ok THEN Throw(trace1, parsed.error)
     ELSE IF ~repairedArgs.ok THEN Throw(trace1, repairedArgs.error)
     ELSE IF ~repairedValidation.ok
       THEN Throw(trace1, "Tool args validation failed: " \o repairedValidation.error)
     ELSE [routerExecute(trace1, pending.functionCall, pending.raw,
                         pending.functionCall.args, pending.toolName,
                         repairedValidation.args, TRUE)
             EXCEPT !.validatedAdd = okPairs(pending.toolName, repairedValidation)]

runSingleToolRouterRunner_onRepair ==
  /\ pc = "str_await_repair"
  /\ \E response \in offered(RepairResponses, SteadyRepair) :
       Apply(routerOnRepair(response), 1, response)

routerOnFinal(response) ==
  LET trace1 == appendThoughtTrace(trace, "finalize", response.thoughts)
      final == parseFinalResponseText(response.text)
  IN IF ~final.ok THEN Throw(trace1, final.error) ELSE Return(trace1, final.response)

runSingleToolRouterRunner_onFinal ==
  /\ pc = "str_await_final"
  /\ \E response \in offered(FinalResponses, SteadyFinal) :
       Apply(routerOnFinal(response), 1, response)

(***************************************************************************)
(* Hybrid-repair runner (runners/hybrid-repair-runner.ts).                 *)
(***************************************************************************)
hybridMaxTurns == Nullish(config.hybridMaxTurns, HYBRID_DEFAULT_MAX_TURNS)

\* Line 53 sending repair requests to the main model whatever options.repairModel is.
repairModelIgnored == currentModel

\* options.repairModel ?? options.model
repairModel == IF config.repairModel # "undefined" THEN config.repairModel ELSE currentModel

runHybridRepairRunner_start ==
  /\ rpc = "attempt"
  /\ pc = "start"
  /\ currentStrategy = "hybrid-repair"
  /\ Apply([Keep EXCEPT !.pc = "hr_loop", !.trace = InitialTrace,
                        !.toolCalls = InitialToolCalls,
                        !.contents = <<createUserContent(userPrompt)>>,
                        !.turn = 0],
           0, NoResponse)

runHybridRepairRunner_request ==
  /\ pc = "hr_loop"
  /\ turn < hybridMaxTurns
  /\ Apply([Keep EXCEPT
              !.pc = "hr_await_turn",
              !.trace = Append(trace, traceStep("llm", "turn_" \o ToString(turn) \o "_request")),
              !.issue = <<"hybrid_turn">>,
              !.asks = historyContents(contents)],
           0, NoResponse)

\* Line 177 returning the last tool result as the router does.
hybridExhaustedTextOfLastCall ==
  IF Len(toolCalls) > 0 THEN jsonStringify(lastOf(toolCalls).result)
  ELSE "No final text response after max tool turns."

hybridExhaustedText == "No final text response after max tool turns."

runHybridRepairRunner_exhausted ==
  /\ pc = "hr_loop"
  /\ turn >= hybridMaxTurns
  /\ Apply(Return(trace, hybridExhaustedText), 0, NoResponse)

validateRawToolArgs(toolName, rawArgs) ==
  LET parsed == IF rawArgs.json = "string"
                  THEN parseObjectWithRepair(rawArgs.source, "functionCall.args")
                  ELSE toJsonObject(rawArgs, "functionCall.args")
      validation == validateArgs(registry, toolName, parsed.value)
  IN IF ~parsed.ok THEN [ok |-> FALSE, error |-> parsed.error, args |-> EmptyObject]
     ELSE IF ~validation.ok
       THEN [ok |-> FALSE, error |-> validation.error, args |-> EmptyObject]
     ELSE [ok |-> TRUE, error |-> "", args |-> validation.args]

\* Lines 153-172: execute, record, and replay the model turn with its function response.
hybridExecute(tr, functionCall, raw, toolName, args, repaired) ==
  LET run == execute(registry, toolName, args)
      callId == IF functionCall.id # NoId THEN functionCall.id
                ELSE "call_" \o ToString(turn)
  IN IF ~run.ok THEN Throw(tr, run.error)
     ELSE [Keep EXCEPT
             !.pc = "hr_loop",
             !.trace = tr,
             !.toolCalls = Append(toolCalls, [toolName |-> toolName, args |-> args,
                                              result |-> run.result, repaired |-> repaired]),
             !.contents = contents \o
               <<modelFunctionCallContent(raw, toolName, args),
                 functionResponseContent(callId, toolName, [result |-> run.result])>>,
             !.turn = turn + 1,
             !.pending = NoPending,
             !.executedAdd = <<[attempt |-> attempt, toolName |-> toolName, args |-> args]>>]

\* Line 139 without the registry lookup.
hybridToolKnownUnchecked(toolName) == toolName # "undefined"

\* Line 139: toolName && registry.has(toolName)
hybridToolKnown(toolName) == toolName # "undefined" /\ has(registry, toolName)

hybridOnTurn(response) ==
  LET functionCall == firstFunctionCall(response)
      toolName == functionCall.name
      direct == validateRawToolArgs(toolName, functionCall.args)
  IN IF Len(response.functionCalls) = 0
       THEN (IF ~textIsBlank(response.text)
               THEN Return(Append(trace, traceStep("llm",
                                    "turn_" \o ToString(turn) \o "_text_response")),
                           plainChars(response.text))
             ELSE IF Len(toolCalls) > 0
               THEN [Keep EXCEPT
                       !.pc = "hr_await_final",
                       !.trace = Append(trace,
                                   traceStep("llm", "finalize_after_tool_call_with_json")),
                       !.issue = <<"final_response">>,
                       !.asks = buildFinalResponsePrompt(userPrompt, lastCall.toolName,
                                                         lastCall.args, lastCall.result)]
             ELSE [Keep EXCEPT
                     !.pc = "hr_await_fallback",
                     !.trace = Append(trace,
                                 traceStep("fallback", "structured_intent_fallback")),
                     !.issue = <<"tool_intent">>,
                     !.asks = buildToolSelectionPrompt(userPrompt)])
     ELSE IF ~hybridToolKnown(toolName)
       THEN Throw(trace, "Model requested unknown tool: " \o toolName)
     ELSE IF direct.ok
       THEN [hybridExecute(trace, functionCall, response.raw, toolName, direct.args, FALSE)
               EXCEPT !.validatedAdd = okPairs(toolName, direct)]
     ELSE [Keep EXCEPT
             !.pc = "hr_await_repair",
             !.trace = Append(trace, traceStep("repair",
                                       "raw_args_invalid_attempting_llm_repair")),
             !.pending = [active |-> TRUE, functionCall |-> functionCall,
                          raw |-> response.raw, toolName |-> toolName],
             !.issue = <<"repair">>,
             !.asks = repairPrompt(toolName, userPrompt, functionCall.args),
             !.to = repairModel]

runHybridRepairRunner_onTurn ==
  /\ pc = "hr_await_turn"
  /\ \E response \in offered(HybridResponses, SteadyHybrid(contents)) :
       Apply(hybridOnTurn(response), 1, response)

\* Line 221 returning repaired: false.
hybridOnRepairUnflagged(response) ==
  LET parsed == parseJsonWithRepair(response.text)
      repairedArgs == toJsonObject(parsed.value, "Repaired tool args")
      revalidated == validateArgs(registry, pending.toolName, repairedArgs.value)
  IN IF ~parsed.ok THEN Throw(trace, parsed.error)
     ELSE IF ~repairedArgs.ok THEN Throw(trace, repairedArgs.error)
     ELSE IF ~revalidated.ok
       THEN Throw(trace, "Tool args still invalid after repair: " \o revalidated.error)
     ELSE [hybridExecute(trace, pending.functionCall, pending.raw, pending.toolName,
                         revalidated.args, FALSE)
             EXCEPT !.validatedAdd = okPairs(pending.toolName, revalidated)]

hybridOnRepair(response) ==
  LET parsed == parseJsonWithRepair(response.text)
      repairedArgs == toJsonObject(parsed.value, "Repaired tool args")
      revalidated == validateArgs(registry, pending.toolName, repairedArgs.value)
  IN IF ~parsed.ok THEN Throw(trace, parsed.error)
     ELSE IF ~repairedArgs.ok THEN Throw(trace, repairedArgs.error)
     ELSE IF ~revalidated.ok
       THEN Throw(trace, "Tool args still invalid after repair: " \o revalidated.error)
     ELSE [hybridExecute(trace, pending.functionCall, pending.raw, pending.toolName,
                         revalidated.args, TRUE)
             EXCEPT !.validatedAdd = okPairs(pending.toolName, revalidated)]

runHybridRepairRunner_onRepair ==
  /\ pc = "hr_await_repair"
  /\ \E response \in offered(RepairResponses, SteadyRepair) :
       Apply(hybridOnRepair(response), 1, response)

hybridOnFinal(response) ==
  LET final == parseFinalResponseText(response.text)
  IN IF ~final.ok THEN Throw(trace, final.error) ELSE Return(trace, final.response)

runHybridRepairRunner_onFinal ==
  /\ pc = "hr_await_final"
  /\ \E response \in offered(FinalResponses, SteadyFinal) :
       Apply(hybridOnFinal(response), 1, response)

\* Lines 310-318 running the selected tool as the structured-json runner would.
fallbackExecutesSelection(response) ==
  LET parsed == parseToolIntentText(response.text)
      intent == parsed.intent
      step == structuredToolCall(intent)
  IN IF ~parsed.ok THEN Throw(trace, parsed.error)
     ELSE IF intent.action = "respond"
       THEN (IF ~Truthy(intent, "response")
               THEN Throw(trace, "Fallback intent missing response")
               ELSE Return(trace, intent.response))
     ELSE IF ~step.ok THEN Throw(trace, step.error)
     ELSE [Return(trace, jsonStringify(step.call.result)) EXCEPT
             !.toolCalls = Append(toolCalls, step.call),
             !.validatedAdd =
               okPairs(intent.toolName, validateArgs(registry, intent.toolName, intent.args)),
             !.executedAdd = <<[attempt |-> attempt, toolName |-> step.call.toolName,
                                args |-> step.call.args]>>]

fallbackViaStructuredIntent(response) ==
  LET parsed == parseToolIntentText(response.text)
      intent == parsed.intent
  IN IF ~parsed.ok THEN Throw(trace, parsed.error)
     ELSE IF intent.action = "respond"
       THEN (IF ~Truthy(intent, "response")
               THEN Throw(trace, "Fallback intent missing response")
               ELSE Return(trace, intent.response))
     ELSE Return(trace, "Fallback selected tool '" \o intent.toolName
                          \o "', but no direct execution was run in fallback mode.")

runHybridRepairRunner_onFallback ==
  /\ pc = "hr_await_fallback"
  /\ \E response \in offered(IntentResponses, SteadyIntent) :
       Apply(fallbackViaStructuredIntent(response), 1, response)

(***************************************************************************)
(* A model call that rejects: the error propagates out of the runner.      *)
(***************************************************************************)
AwaitingModel ==
  {"sj_await_intent", "sj_await_final",
   "str_await_dispatch", "str_await_repair", "str_await_final",
   "hr_await_turn", "hr_await_repair", "hr_await_final", "hr_await_fallback"}

(***************************************************************************)
(* GoogleModelClient (src/unnamed/part_005).  An error message is the      *)
(* sequence of the fragments it is made of; a needle occurs in a message   *)
(* when one of its fragments is that needle.                               *)
(***************************************************************************)
DEFAULT_REQUEST_TIMEOUT_MS == 45000
MAX_TRANSIENT_RETRIES == 2
BACKOFF_STEP_MS == 2000

Lit(text) == [text |-> text, hint |-> "none", num |-> 0, den |-> 1]
\* "retryDelay":"<seconds>s"
RetryDelayField(seconds) ==
  [text |-> "\"retryDelay\":\"" \o ToString(seconds) \o "s\"", hint |-> "retryDelay",
   num |-> seconds, den |-> 1]
\* retry in <decimal>s, the decimal being num/den
RetryInPhrase(decimal, num, den) ==
  [text |-> "retry in " \o decimal \o "s", hint |-> "retryIn", num |-> num, den |-> den]

RECURSIVE Join(_)
Join(parts) == IF parts = <<>> THEN "" ELSE Head(parts).text \o Join(Tail(parts))

toErrorMessage(error) == Join(error)

toUpperCase(text) ==
  CASE text = "rate_limit" -> "RATE_LIMIT"
    [] text = "service_unavailable" -> "SERVICE_UNAVAILABLE"
    [] text = "\"code\":429" -> "\"CODE\":429"
    [] text = "\"code\":503" -> "\"CODE\":503"
    [] text = "\"code\":400" -> "\"CODE\":400"
    [] text = "\"code\":500" -> "\"CODE\":500"
    [] OTHER -> text

includes(message, needle) == \E i \in 1..Len(message) : toUpperCase(message[i].text) = needle

\* Line 105 without the service-unavailable signals.
isRetryableGeminiErrorRateLimitOnly(message) ==
  \/ includes(message, "RESOURCE_EXHAUSTED")
  \/ includes(message, "RATE_LIMIT")
  \/ includes(message, "\"CODE\":429")

\* Line 105 taking every failure as transient.
isRetryableGeminiErrorAlways(message) == TRUE

isRetryableGeminiError(message) ==
  \/ includes(message, "RESOURCE_EXHAUSTED")
  \/ includes(message, "RATE_LIMIT")
  \/ includes(message, "\"CODE\":429")
  \/ includes(message, "SERVICE_UNAVAILABLE")
  \/ includes(message, "\"CODE\":503")

ceilDiv(a, b) == (a + b - 1) \div b

\* String.prototype.match: the first fragment the pattern matches, 0 if none.
firstMatch(message, hint) ==
  IF \E i \in 1..Len(message) : message[i].hint = hint
    THEN CHOOSE i \in 1..Len(message) :
           /\ message[i].hint = hint
           /\ \A j \in 1..(i - 1) : message[j].hint # hint
    ELSE 0

\* Line 116 reading the hint as milliseconds.
extractRetryDelayMsUnscaled(message) ==
  LET retryInfoMatch == firstMatch(message, "retryDelay")
      inlineMatch == firstMatch(message, "retryIn")
  IN IF retryInfoMatch # 0 /\ message[retryInfoMatch].num > 0
       THEN Given(message[retryInfoMatch].num)
     ELSE IF inlineMatch # 0 /\ message[inlineMatch].num > 0
       THEN Given(ceilDiv(message[inlineMatch].num, message[inlineMatch].den))
     ELSE Absent

extractRetryDelayMs(message) ==
  LET retryInfoMatch == firstMatch(message, "retryDelay")
      inlineMatch == firstMatch(message, "retryIn")
  IN IF retryInfoMatch # 0 /\ message[retryInfoMatch].num > 0
       THEN Given(message[retryInfoMatch].num * 1000)
     ELSE IF inlineMatch # 0 /\ message[inlineMatch].num > 0
       THEN Given(ceilDiv(message[inlineMatch].num * 1000, message[inlineMatch].den))
     ELSE Absent

requestTimeoutMs == DEFAULT_REQUEST_TIMEOUT_MS
timeoutMessage == <<Lit("Gemini request timed out after " \o ToString(requestTimeoutMs) \o "ms")>>

\* What the transport (ai.models.generateContent) may reject with.
RetryHints ==
  { <<>>,
    <<RetryDelayField(7)>>,
    <<RetryDelayField(0)>>,
    <<RetryInPhrase("1.5", 15, 10)>>,
    <<RetryInPhrase("0.0004", 4, 10000)>>,
    <<RetryDelayField(0), Lit(" Please "), RetryInPhrase("3", 3, 1)>> }
TransientErrors ==
  { <<Lit("RESOURCE_EXHAUSTED"), Lit(" ")>> \o hint : hint \in RetryHints }
    \cup { <<Lit("\"code\":429")>>, <<Lit("rate_limit")>>,
           <<Lit("service_unavailable")>>, <<Lit("\"code\":503"), RetryDelayField(7)>> }
PermanentErrors ==
  { <<Lit("API key not valid")>>, <<Lit("\"code\":500")>>,
    <<Lit("\"code\":400"), Lit(" "), RetryDelayField(7)>> }
TransportErrors == TransientErrors \cup PermanentErrors

\* Line 42: the for loop enters its body and calls the transport under withTimeout.
generateWithRetry_invoke ==
  /\ gpc = "loop"
  /\ IF retryAttempt <= MAX_TRANSIENT_RETRIES
       THEN /\ gpc' = "awaiting"
            /\ invocations' = invocations + 1
            /\ UNCHANGED callError
       ELSE /\ gpc' = "rejected"
            /\ UNCHANGED <<invocations, callError>>
  /\ UNCHANGED <<retryAttempt, sleeps, libVars, benchVars, rsVars, runnerVars, observerVars>>

\* Line 52 giving up one invocation early.
retriesExhaustedEarly == retryAttempt = MAX_TRANSIENT_RETRIES - 1
\* Line 52 never giving up.
retriesExhaustedNever == FALSE
retriesExhausted == retryAttempt = MAX_TRANSIENT_RETRIES

\* Line 56 with a delay that does not grow.
backoffDelayMsFlat(message) == Nullish(extractRetryDelayMs(message), BACKOFF_STEP_MS)
backoffDelayMs(message) ==
  Nullish(extractRetryDelayMs(message), BACKOFF_STEP_MS * (retryAttempt + 1))

\* Lines 49-58: the catch block.
generateWithRetry_catch(error) ==
  IF ~isRetryableGeminiError(error) \/ retriesExhausted
       THEN /\ gpc' = "rejected"
            /\ callError' = error
            /\ UNCHANGED sleeps
       ELSE /\ gpc' = "sleeping"
            /\ callError' = error
            /\ sleeps' = Append(sleeps, backoffDelayMs(error))

transport_resolves ==
  /\ gpc = "awaiting"
  /\ gpc' = "resolved"
  /\ UNCHANGED <<retryAttempt, callError, invocations, sleeps, libVars, benchVars, rsVars,
                 runnerVars, observerVars>>

transport_rejects ==
  /\ gpc = "awaiting"
  /\ \E error \in TransportErrors : generateWithRetry_catch(error)
  /\ UNCHANGED <<retryAttempt, invocations, libVars, benchVars, rsVars, runnerVars,
                 observerVars>>

\* Lines 79-96: the timer wins the race.
withTimeout_expires ==
  /\ gpc = "awaiting"
  /\ generateWithRetry_catch(timeoutMessage)
  /\ UNCHANGED <<retryAttempt, invocations, libVars, benchVars, rsVars, runnerVars,
                 observerVars>>

\* Line 57 done: the loop goes round.
generateWithRetry_sleepDone ==
  /\ gpc = "sleeping"
  /\ gpc' = "loop"
  /\ retryAttempt' = retryAttempt + 1
  /\ UNCHANGED <<callError, invocations, sleeps, libVars, benchVars, rsVars, runnerVars,
                 observerVars>>

generateContent_rejects ==
  /\ pc \in AwaitingModel
  /\ modelCallRejected
  /\ gpc' = "idle"
  /\ pc' = "threw"
  /\ runnerError' = IF usesGoogleModelClient THEN toErrorMessage(callError)
                                             ELSE ClientErrorMessage
  /\ pending' = NoPending
  /\ inFlight' = inFlight - 1
  /\ UNCHANGED <<libVars, retryAttempt, callError, invocations, sleeps, benchVars, rsVars,
                 turn, toolCalls, trace, contents, finalText,
                 activeRuns, activeAttempts, startedAttempts, cellAttempts, requests,
                 addressed, sent,
                 responses, validated, executed>>

(***************************************************************************)
(* runStrategy and runStrategyOnce (src/src/strategy-runner.ts).           *)
(***************************************************************************)
maxRetries == Max(0, Nullish(config.maxRetries, 0))

MissingApiKeyMessage ==
  "Missing API key. Set GOOGLE_API_KEY or GEMINI_API_KEY before running."

runFailedMessage(lastMessage) ==
  "Run failed after " \o ToString(maxRetries + 1) \o " attempt(s): " \o lastMessage

\* The loop test that lets one more attempt start than the code does.
mayAttemptOnceMore == attempt <= maxRetries + 2
mayAttempt == attempt <= maxRetries + 1

\* Line 121 breaking one attempt early.
attemptsExhaustedEarly == attempt >= maxRetries
attemptsExhausted == attempt > maxRetries

\* The attempts field as withMeta left it (always 1).
resultAttemptsFromMeta == 1
resultAttempts == attempt

\* The message of the first failure instead of the last.
firstFailureMessage == IF errors = <<>> THEN runnerError ELSE errors[1]
lastFailureMessage == runnerError

runStrategy_startAttempt ==
  /\ rpc = "loop"
  /\ mayAttempt
  /\ rpc' = "attempt"
  /\ pc' = IF config.hasApiKey THEN "start" ELSE "threw"
  /\ runnerError' = IF config.hasApiKey THEN runnerError ELSE MissingApiKeyMessage
  /\ activeAttempts' = activeAttempts + 1
  /\ startedAttempts' = startedAttempts + 1
  /\ requests' = <<>>
  /\ addressed' = <<>>
  /\ sent' = <<>>
  /\ responses' = <<>>
  /\ UNCHANGED <<clientVars, libVars,
                 benchVars, attempt, errors, lastError, outcome, turn, toolCalls, trace,
                 contents, pending, finalText, inFlight, activeRuns, cellAttempts,
                 validated, executed>>

runStrategy_attemptReturned ==
  /\ rpc = "attempt"
  /\ pc = "returned"
  /\ outcome' = [kind |-> "result", strategy |-> currentStrategy, finalText |-> finalText,
                 toolCalls |-> toolCalls, trace |-> trace, usedModel |-> currentModel,
                 usedStrategy |-> currentStrategy, attempts |-> resultAttempts,
                 errors |-> errors]
  /\ rpc' = "returned"
  /\ pc' = "idle"
  /\ activeAttempts' = activeAttempts - 1
  /\ activeRuns' = activeRuns - 1
  /\ UNCHANGED <<clientVars, libVars,
                 benchVars, attempt, errors, lastError, turn, toolCalls, trace, contents,
                 pending, finalText, runnerError, inFlight, startedAttempts, cellAttempts,
                 requests, addressed, sent, responses, validated, executed>>

runStrategy_attemptThrew ==
  /\ rpc = "attempt"
  /\ pc = "threw"
  /\ lastError' = lastFailureMessage
  /\ errors' = Append(errors, runnerError)
  /\ pc' = "idle"
  /\ activeAttempts' = activeAttempts - 1
  /\ IF attemptsExhausted
       THEN /\ rpc' = "thrown"
            /\ outcome' = [kind |-> "error", message |-> runFailedMessage(lastError')]
            /\ activeRuns' = activeRuns - 1
            /\ UNCHANGED attempt
       ELSE /\ rpc' = "loop"
            /\ attempt' = attempt + 1
            /\ UNCHANGED <<outcome, activeRuns>>
  /\ UNCHANGED <<clientVars, libVars,
                 benchVars, turn, toolCalls, trace, contents, pending, finalText,
                 runnerError, inFlight, startedAttempts, cellAttempts, requests, addressed,
                 sent, responses,
                 validated, executed>>

(***************************************************************************)
(* runBenchmark (src/src/benchmark.ts).  durationMs and the two timestamps *)
(* are wall-clock readings and are left out of the records.                *)
(***************************************************************************)
\* The loop nest with the strategy loop innermost.
nextCellStrategyInnermost(c) ==
  IF c.s < Len(config.strategies) THEN [c EXCEPT !.s = c.s + 1]
  ELSE IF c.iteration < config.iterations THEN [c EXCEPT !.iteration = c.iteration + 1, !.s = 1]
  ELSE IF c.p < Len(config.presets) THEN [c EXCEPT !.p = c.p + 1, !.iteration = 1, !.s = 1]
  ELSE [m |-> c.m + 1, s |-> 1, p |-> 1, iteration |-> 1]

\* Lines 88-91: the four nested loops, advanced from the innermost outwards.
nextCell(c) ==
  IF c.iteration < config.iterations THEN [c EXCEPT !.iteration = c.iteration + 1]
  ELSE IF c.p < Len(config.presets) THEN [c EXCEPT !.p = c.p + 1, !.iteration = 1]
  ELSE IF c.s < Len(config.strategies) THEN [c EXCEPT !.s = c.s + 1, !.p = 1, !.iteration = 1]
  ELSE [m |-> c.m + 1, s |-> 1, p |-> 1, iteration |-> 1]

\* A benchmark loop that does not await the strategy run it started.
cellMayStartUnawaited == bpc \in {"loop", "running"}
cellMayStart == bpc = "loop"

\* The enumeration stopping at the first failed cell.
afterFailedCellAbort(c) == [m |-> Len(config.models) + 1, s |-> 1, p |-> 1, iteration |-> 1]
afterFailedCell(c) == nextCell(c)

\* Line 133 without the lower bound of one attempt.
failedAttemptsUnclamped == Nullish(config.maxRetries, 0) + 1
failedAttempts == Max(1, Nullish(config.maxRetries, 0) + 1)

runBenchmark_startCell ==
  /\ cellMayStart
  /\ cell.m <= Len(config.models)
  /\ bpc' = "running"
  /\ rpc' = "loop"
  /\ attempt' = 1
  /\ errors' = <<>>
  /\ lastError' = ""
  /\ outcome' = NoOutcome
  /\ activeRuns' = activeRuns + 1
  /\ startedAttempts' = 0
  /\ validated' = {}
  /\ executed' = <<>>
  /\ UNCHANGED <<clientVars, libVars,
                 config, cell, records, report, runnerVars, inFlight, activeAttempts,
                 cellAttempts, requests, addressed, sent, responses>>

Count(calls, P(_)) == Cardinality({i \in 1..Len(calls) : P(calls[i])})
isRepaired(item) == item.repaired

runBenchmark_recordSuccess ==
  /\ bpc = "running"
  /\ rpc = "returned"
  /\ records' = Append(records,
       [model |-> currentModel, strategy |-> currentStrategy,
        presetId |-> currentPreset.id, iteration |-> cell.iteration,
        success |-> TRUE, attempts |-> outcome.attempts,
        toolCalls |-> Len(outcome.toolCalls),
        repairedCalls |-> Count(outcome.toolCalls, isRepaired),
        error |-> "undefined"])
  /\ cell' = nextCell(cell)
  /\ bpc' = "loop"
  /\ rpc' = "idle"
  /\ cellAttempts' = Append(cellAttempts, startedAttempts)
  /\ UNCHANGED <<clientVars, libVars,
                 config, report, attempt, errors, lastError, outcome, runnerVars, inFlight,
                 activeRuns, activeAttempts, startedAttempts, requests, addressed, sent, responses,
                 validated, executed>>

runBenchmark_recordFailure ==
  /\ bpc = "running"
  /\ rpc = "thrown"
  /\ records' = Append(records,
       [model |-> currentModel, strategy |-> currentStrategy,
        presetId |-> currentPreset.id, iteration |-> cell.iteration,
        success |-> FALSE, attempts |-> failedAttempts,
        toolCalls |-> 0, repairedCalls |-> 0,
        error |-> outcome.message])
  /\ cell' = afterFailedCell(cell)
  /\ bpc' = "loop"
  /\ rpc' = "idle"
  /\ cellAttempts' = Append(cellAttempts, startedAttempts)
  /\ UNCHANGED <<clientVars, libVars,
                 config, report, attempt, errors, lastError, outcome, runnerVars, inFlight,
                 activeRuns, activeAttempts, startedAttempts, requests, addressed, sent, responses,
                 validated, executed>>

runBenchmark_return ==
  /\ bpc = "loop"
  /\ cell.m > Len(config.models)
  /\ bpc' = "done"
  /\ report' = [returned |-> TRUE, totalRuns |-> Len(records), records |-> records]
  /\ UNCHANGED <<clientVars, libVars,
                 config, cell, records, rsVars, runnerVars, observerVars>>

(***************************************************************************)
(* Single mode of main (src/index.ts): one awaited runStrategy call whose   *)
(* result is printed, or whose error ends the process.                     *)
(***************************************************************************)
main_runSingle ==
  /\ bpc = "single"
  /\ bpc' = "single_running"
  /\ rpc' = "loop"
  /\ attempt' = 1
  /\ errors' = <<>>
  /\ lastError' = ""
  /\ outcome' = NoOutcome
  /\ activeRuns' = activeRuns + 1
  /\ startedAttempts' = 0
  /\ validated' = {}
  /\ executed' = <<>>
  /\ UNCHANGED <<clientVars, libVars,
                 config, cell, records, report, runnerVars, inFlight, activeAttempts,
                 cellAttempts, requests, addressed, sent, responses>>

main_singleSettled ==
  /\ bpc = "single_running"
  /\ rpc \in {"returned", "thrown"}
  /\ bpc' = "single_done"
  /\ rpc' = "idle"
  /\ UNCHANGED <<clientVars, libVars,
                 config, cell, records, report, attempt, errors, lastError, outcome,
                 runnerVars, observerVars>>

Next ==
  \/ main_runSingle
  \/ main_singleSettled
  \/ runBenchmark_startCell
  \/ runBenchmark_recordSuccess
  \/ runBenchmark_recordFailure
  \/ runBenchmark_return
  \/ runStrategy_startAttempt
  \/ runStrategy_attemptReturned
  \/ runStrategy_attemptThrew
  \/ runStructuredJsonRunner_requestIntent
  \/ runStructuredJsonRunner_onIntent
  \/ runStructuredJsonRunner_onFinal
  \/ runSingleToolRouterRunner_start
  \/ runSingleToolRouterRunner_requestDispatch
  \/ runSingleToolRouterRunner_exhausted
  \/ runSingleToolRouterRunner_onDispatch
  \/ runSingleToolRouterRunner_onRepair
  \/ runSingleToolRouterRunner_onFinal
  \/ runHybridRepairRunner_start
  \/ runHybridRepairRunner_request
  \/ runHybridRepairRunner_exhausted
  \/ runHybridRepairRunner_onTurn
  \/ runHybridRepairRunner_onRepair
  \/ runHybridRepairRunner_onFinal
  \/ runHybridRepairRunner_onFallback
  \/ generateContent_rejects

Spec == Init /\ [][Next]_vars

(***************************************************************************)
(* The benchmark of one structured-json cell through GoogleModelClient.    *)
(***************************************************************************)
GoogleInit == Program(GoogleClientConfigs) /\ libIdle

GoogleNext ==
  \/ runBenchmark_startCell
  \/ runBenchmark_recordSuccess
  \/ runBenchmark_recordFailure
  \/ runBenchmark_return
  \/ runStrategy_startAttempt
  \/ runStrategy_attemptReturned
  \/ runStrategy_attemptThrew
  \/ runStructuredJsonRunner_requestIntent
  \/ runStructuredJsonRunner_onIntent
  \/ runStructuredJsonRunner_onFinal
  \/ generateWithRetry_invoke
  \/ transport_resolves
  \/ transport_rejects
  \/ withTimeout_expires
  \/ generateWithRetry_sleepDone
  \/ generateContent_rejects

GoogleSpec == GoogleInit /\ [][GoogleNext]_vars

(***************************************************************************)
(* One run of a turn-loop runner, every step of it eventually taken: the   *)
(* runner's own code runs to its next await, and every model call          *)
(* eventually returns or fails.                                            *)
(***************************************************************************)
TurnLoopInit == Program(TurnLoopConfigs) /\ libIdle

TurnLoopNext ==
  \/ runBenchmark_startCell
  \/ runBenchmark_recordSuccess
  \/ runBenchmark_recordFailure
  \/ runBenchmark_return
  \/ runStrategy_startAttempt
  \/ runStrategy_attemptReturned
  \/ runStrategy_attemptThrew
  \/ runSingleToolRouterRunner_start
  \/ runSingleToolRouterRunner_requestDispatch
  \/ runSingleToolRouterRunner_exhausted
  \/ runSingleToolRouterRunner_onDispatch
  \/ runSingleToolRouterRunner_onRepair
  \/ runSingleToolRouterRunner_onFinal
  \/ runHybridRepairRunner_start
  \/ runHybridRepairRunner_request
  \/ runHybridRepairRunner_exhausted
  \/ runHybridRepairRunner_onTurn
  \/ runHybridRepairRunner_onRepair
  \/ runHybridRepairRunner_onFinal
  \/ runHybridRepairRunner_onFallback
  \/ generateContent_rejects

TurnLoopSpec == TurnLoopInit /\ [][TurnLoopNext]_vars /\ WF_vars(TurnLoopNext)

(***************************************************************************)
(* Properties.                                                             *)
(***************************************************************************)
isSJ == config.strategies[Min(cell.s, Len(config.strategies))] = "structured-json"
inAttempt == rpc = "attempt"
executedIn(k) == SelectSeq(executed, LAMBDA e : e.attempt = k)
callKeys(calls) == [i \in 1..Len(calls) |-> <<calls[i].toolName, calls[i].args>>]
executedKeys(k) ==
  [i \in 1..Len(executedIn(k)) |-> <<executedIn(k)[i].toolName, executedIn(k)[i].args>>]

\* C1: in all three engines execute(name, args) is only called with args that a
\* successful validateArgs(name, .) returned earlier in the same attempt, and every
\* ToolCallRecord.args held by a running engine or by a returned result is such a value.
C1_OnlyValidatedArgsExecuted ==
  /\ \A i \in 1..Len(executed) :
       <<executed[i].attempt, executed[i].toolName, executed[i].args>> \in validated
  /\ (inAttempt /\ pc \notin {"start", "idle"}) =>
       \A i \in 1..Len(toolCalls) :
         <<attempt, toolCalls[i].toolName, toolCalls[i].args>> \in validated
  /\ outcome.kind = "result" =>
       \A i \in 1..Len(outcome.toolCalls) :
         <<outcome.attempts, outcome.toolCalls[i].toolName, outcome.toolCalls[i].args>>
           \in validated

\* A run returned a tool call whose args were repaired before execution.
C1_Witness ==
  /\ outcome.kind = "result"
  /\ Len(outcome.toolCalls) >= 1
  /\ outcome.toolCalls[1].repaired
  /\ Len(executed) >= 1

\* C2: when runStrategy returns, the first attempts-1 attempts failed, the last one
\* succeeded, attempts = k <= maxRetries + 1, the result is that attempt's result and
\* no further attempt was started; one failure then a success gives attempts = 2.
C2_AttemptsCountsTheSuccess ==
  outcome.kind = "result" =>
    /\ outcome.attempts = Len(errors) + 1
    /\ outcome.attempts = startedAttempts
    /\ outcome.attempts <= maxRetries + 1
    /\ (Len(errors) = 1 => outcome.attempts = 2)
    /\ outcome.toolCalls = toolCalls
    /\ outcome.finalText = finalText

\* One failed attempt, then a successful one.
C2_Witness ==
  /\ outcome.kind = "result"
  /\ Len(errors) = 1
  /\ outcome.attempts = 2
  /\ Nullish(config.maxRetries, 0) >= 1

\* C3: at most maxRetries + 1 attempts are made, every failure is recorded and followed
\* by the next attempt, and when all have failed the wrapped error carries the message
\* of the final attempt and no result exists.
C3_RetriesExhaustedRaises ==
  /\ startedAttempts <= maxRetries + 1
  /\ Len(errors) <= startedAttempts
  /\ rpc = "loop" => (Len(errors) = attempt - 1 /\ attempt <= maxRetries + 1
                      /\ startedAttempts = attempt - 1)
  /\ outcome.kind = "error" =>
       /\ startedAttempts = maxRetries + 1
       /\ Len(errors) = maxRetries + 1
       /\ outcome.message = "Run failed after " \o ToString(maxRetries + 1)
                              \o " attempt(s): " \o errors[Len(errors)]
       /\ "finalText" \notin DOMAIN outcome

\* Two attempts failed for different reasons and the run raised.
C3_Witness ==
  /\ outcome.kind = "error"
  /\ Len(errors) = 2
  /\ errors[1] # errors[2]

firstRequestDetail(strategy) ==
  IF strategy = "structured-json" THEN "request_tool_intent"
  ELSE IF strategy = "single-tool-router" THEN "turn_0_request_dispatch"
  ELSE "turn_0_request"

\* C4: every attempt starts with an empty toolCalls list and an empty trace, and the
\* result returned after failed attempts holds exactly the tool calls executed and the
\* trace steps written by the successful attempt.
C4_AttemptsAreIndependent ==
  /\ (inAttempt /\ Len(requests) = 1
        /\ pc \in {"sj_await_intent", "str_await_dispatch", "hr_await_turn"}) =>
       /\ toolCalls = <<>>
       /\ trace = <<traceStep("llm", firstRequestDetail(currentStrategy))>>
  /\ outcome.kind = "result" =>
       /\ callKeys(outcome.toolCalls) = executedKeys(outcome.attempts)
       /\ outcome.trace # <<>> =>
            outcome.trace[1] = traceStep("llm", firstRequestDetail(outcome.strategy))
       /\ \A i \in 2..Len(outcome.trace) :
            outcome.trace[i].detail # firstRequestDetail(outcome.strategy)

\* The second attempt succeeded after the first one had executed a tool and then failed.
C4_Witness ==
  /\ outcome.kind = "result"
  /\ outcome.attempts = 2
  /\ executedIn(1) # <<>>
  /\ Len(outcome.toolCalls) = 1

\* C5: runBenchmark returns exactly models x strategies x presets x iterations records,
\* and totalRuns equal to that number, whichever cells failed.
C5_OneRecordPerCell ==
  /\ Len(records) <= cellCount(config)
  /\ bpc = "done" =>
       /\ Len(records) = cellCount(config)
       /\ report.totalRuns = cellCount(config)
       /\ report.records = records

\* A finished four-cell benchmark whose first and third cell failed.
C5_Witness ==
  /\ bpc = "done"
  /\ Len(records) = 4
  /\ ~records[1].success
  /\ records[2].success
  /\ ~records[3].success
  /\ records[4].success

\* The cell at 0-based position q of the lexicographic order over
\* (model, strategy, preset, iteration).
cellAt(q) ==
  [m |-> (q \div (config.iterations * Len(config.presets) * Len(config.strategies))) + 1,
   s |-> ((q \div (config.iterations * Len(config.presets))) % Len(config.strategies)) + 1,
   p |-> ((q \div config.iterations) % Len(config.presets)) + 1,
   iteration |-> (q % config.iterations) + 1]

\* C6: the record at position p is the record of the p-th cell of the nested
\* enumeration (models outermost, then strategies, presets, iteration 1..iterations),
\* whether cells succeeded or failed.
C6_RecordsInEnumerationOrder ==
  \A p \in 1..Len(records) :
    /\ records[p].model = config.models[cellAt(p - 1).m]
    /\ records[p].strategy = config.strategies[cellAt(p - 1).s]
    /\ records[p].presetId = config.presets[cellAt(p - 1).p].id
    /\ records[p].iteration = cellAt(p - 1).iteration

\* Two models by two different strategies, with a failed cell among the four.
C6_Witness ==
  /\ Len(records) = 4
  /\ Len(config.models) = 2
  /\ Len(config.strategies) = 2
  /\ config.strategies[1] # config.strategies[2]
  /\ ~records[2].success
  /\ records[3].success

\* C7: the record of a failed cell has success = false, the error message, no tool
\* calls, and attempts = max(1, maxRetries + 1), which is the number of attempts
\* runStrategy made for that cell, for absent, negative, zero and positive maxRetries.
C7_FailedCellRecord ==
  /\ \A p \in 1..Len(records) :
       ~records[p].success =>
         /\ records[p].attempts = Max(1, Nullish(config.maxRetries, 0) + 1)
         /\ records[p].attempts = cellAttempts[p]
         /\ records[p].toolCalls = 0
         /\ records[p].repairedCalls = 0
         /\ records[p].error # "undefined"
  /\ (bpc = "loop" /\ outcome.kind = "error") =>
       /\ ~records[Len(records)].success
       /\ records[Len(records)].error = outcome.message

\* A failed cell under a negative maxRetries: one attempt made, one recorded.
C7_Witness ==
  /\ config.maxRetries = Given(-1)
  /\ Len(records) >= 1
  /\ ~records[1].success
  /\ records[1].attempts = 1
  /\ cellAttempts[1] = 1

\* C8: execution is strictly sequential: at most one model call is in flight, a cell's
\* run starts only when no run is active, an attempt only when no attempt is active,
\* and a model request is issued only when none is outstanding.
C8_StrictlySequential ==
  /\ inFlight \in {0, 1}
  /\ activeAttempts \in {0, 1}
  /\ activeRuns \in {0, 1}
  /\ inFlight = 1 => activeAttempts = 1
  /\ activeAttempts = 1 => activeRuns = 1
  /\ bpc \in {"loop", "done"} => activeRuns = 0
  /\ rpc = "loop" => (activeAttempts = 0 /\ inFlight = 0)
  /\ (pc \in AwaitingModel) <=> (inFlight = 1)

\* In a later cell, in a second attempt, a second request is in flight.
C8_Witness ==
  /\ inFlight = 1
  /\ Len(records) >= 1
  /\ attempt = 2
  /\ Len(requests) = 2

selection == parseToolIntentText(responses[1].text)

\* C9: a structured-json run whose selection is respond returns that response after
\* one model call and no execution; with call_tool and valid args it executes one tool,
\* makes two model calls (selection, finalization) and returns one ToolCallRecord with
\* repaired = false and the finalization response as finalText.
C9_StructuredJsonPaths ==
  (isSJ /\ inAttempt /\ pc \in {"returned", "sj_await_final"}) =>
    /\ selection.ok
    /\ (selection.intent.action = "respond") =>
         /\ pc = "returned"
         /\ requests = <<"tool_intent">>
         /\ Len(responses) = 1
         /\ toolCalls = <<>>
         /\ executedIn(attempt) = <<>>
         /\ finalText = selection.intent.response
    /\ (selection.intent.action = "call_tool") =>
         /\ requests = <<"tool_intent", "final_response">>
         /\ Len(toolCalls) = 1
         /\ ~toolCalls[1].repaired
         /\ toolCalls[1].toolName = selection.intent.toolName
         /\ Len(executedIn(attempt)) = 1
         /\ pc = "returned" =>
              /\ Len(responses) = 2
              /\ finalText = parseFinalResponseText(responses[2].text).response

\* A structured-json run returned the finalization response after sorting.
C9_Witness ==
  /\ isSJ /\ inAttempt /\ pc = "returned"
  /\ Len(toolCalls) = 1
  /\ toolCalls[1].toolName = "sort_numbers"
  /\ finalText = "Sorted."

selectedInvalidArgs ==
  /\ selection.ok
  /\ selection.intent.action = "call_tool"
  /\ ~validateArgs(registry, selection.intent.toolName, selection.intent.args).ok

\* C10: in a structured-json run, a selected tool whose args fail validation ends the
\* run with the validation error at once: one model call, no repair request, no
\* execution, no finalization request and no ToolCallRecord.
C10_StructuredJsonInvalidArgsFatal ==
  (isSJ /\ inAttempt /\ Len(responses) >= 1 /\ pc # "sj_await_intent"
     /\ selectedInvalidArgs) =>
    /\ pc = "threw"
    /\ runnerError = "Tool args validation failed: "
         \o validateArgs(registry, selection.intent.toolName, selection.intent.args).error
    /\ requests = <<"tool_intent">>
    /\ Len(responses) = 1
    /\ toolCalls = <<>>
    /\ executedIn(attempt) = <<>>

\* The selection named sum_numbers with a non-numeric array element.
C10_Witness ==
  /\ isSJ /\ inAttempt /\ pc = "threw"
  /\ Len(responses) = 1
  /\ selectedInvalidArgs
  /\ runnerError = "Tool args validation failed: numbers.1: expected number, received string"

isRouter == config.strategies[Min(cell.s, Len(config.strategies))] = "single-tool-router"
isHybrid == config.strategies[Min(cell.s, Len(config.strategies))] = "hybrid-repair"
answered == Len(responses') = Len(responses) + 1
answer == responses'[Len(responses')]

C11_NoCallTurn ==
  (pc = "str_await_dispatch" /\ answered /\ answer.functionCalls = <<>>) =>
    IF trim(plainChars(answer.text)) # ""
      THEN /\ pc' = "returned"
           /\ finalText' = plainChars(answer.text)
           /\ requests' = requests
    ELSE IF executedIn(attempt) = <<>>
      THEN /\ pc' = "returned"
           /\ finalText' = "Model did not provide a dispatch tool call."
           /\ toolCalls' = <<>>
           /\ requests' = requests
    ELSE /\ pc' = "str_await_final"
         /\ requests' = Append(requests, "final_response")

C11_Finalization ==
  (pc = "str_await_final" /\ answered) =>
    /\ pc' \in {"returned", "threw"}
    /\ requests' = requests
    /\ pc' = "returned" => finalText' = parseFinalResponseText(answer.text).response

\* C11: a router turn without a function call ends the run with the model's text when
\* that text is non-empty after trimming; otherwise with the fixed no-dispatch message,
\* no tool call and no further request when no tool has run; otherwise it issues exactly
\* one finalization request, whose response is the final text.
C11_RouterNoCallPriority == [][C11_NoCallTurn /\ C11_Finalization]_vars

\* The router finalized after one executed dispatch and a turn with blank text.
C11_Witness ==
  /\ isRouter /\ inAttempt /\ pc = "returned"
  /\ requests = <<"dispatch", "dispatch", "final_response">>
  /\ responses[2].text = PlainText("  ")
  /\ Len(toolCalls) = 1
  /\ finalText = "Total is 3"

TurnRequests == {"dispatch", "hybrid_turn"}
awaitingRepair == pc \in {"str_await_repair", "hr_await_repair"}

\* The repair reply is a JSON object that validates for the tool under repair.
repairReplyValid(reply) ==
  /\ parseJsonWithRepair(reply.text).ok
  /\ isJsonObject(parseJsonWithRepair(reply.text).value)
  /\ validateArgs(registry, pending.toolName, parseJsonWithRepair(reply.text).value).ok

C12_RepairRequestFollowsTurn ==
  (requests' # requests /\ requests' # <<>> /\ requests'[Len(requests')] = "repair") =>
    /\ requests' = Append(requests, "repair")
    /\ requests # <<>>
    /\ requests[Len(requests)] \in TurnRequests

C12_FailedRepairIsFatal ==
  (awaitingRepair /\ answered) =>
    /\ requests' = requests
    /\ ~repairReplyValid(answer) =>
         /\ pc' = "threw"
         /\ toolCalls' = toolCalls
         /\ executed' = executed

\* C12: in the router and in hybrid-repair a function call gets at most one repair
\* request; when the repair reply is not a JSON object or still fails validation the
\* attempt ends with an error, without execution and without a ToolCallRecord.
C12_RepairIsOneShot == [][C12_RepairRequestFollowsTurn /\ C12_FailedRepairIsFatal]_vars

\* The router's repair reply still held a non-numeric element.
C12_Witness ==
  /\ isRouter /\ inAttempt /\ pc = "threw"
  /\ requests = <<"dispatch", "repair">>
  /\ runnerError = "Tool args validation failed: numbers.1: expected number, received string"
  /\ toolCalls = <<>>
  /\ executedIn(attempt) = <<>>

\* Position in requests of the turn request that brought the i-th ToolCallRecord: every
\* turn before it executed a tool, so it is the i-th turn request of the attempt.
turnRequestOf(i) ==
  CHOOSE d \in 1..Len(requests) :
    /\ requests[d] \in TurnRequests
    /\ Cardinality({j \in 1..d : requests[j] \in TurnRequests}) = i

repairRequestedFor(i) ==
  /\ turnRequestOf(i) < Len(requests)
  /\ requests[turnRequestOf(i) + 1] = "repair"

\* The function call of the turn that brought the i-th ToolCallRecord.
suppliedCall(i) == responses[turnRequestOf(i)].functionCalls[1]

\* Whether the args first supplied with that call pass validation as they are.
suppliedArgsValid(i) ==
  IF isRouter
    THEN LET parsed == parseObjectWithRepair(suppliedCall(i).args.argumentsJson,
                                             "dispatch argumentsJson")
         IN parsed.ok /\ validateArgs(registry, suppliedCall(i).args.toolName, parsed.value).ok
    ELSE validateRawToolArgs(suppliedCall(i).name, suppliedCall(i).args).ok

inNativeRun == (isRouter \/ isHybrid) /\ inAttempt /\ requests # <<>>

\* C13: a ToolCallRecord of the router or of hybrid-repair has repaired = true exactly
\* when the args supplied with its function call failed validation and a repair request
\* was issued for it before the execution; all other records have repaired = false.
C13_RepairedFlagIsRepairPath ==
  inNativeRun =>
    \A i \in 1..Len(toolCalls) :
      /\ toolCalls[i].repaired <=> repairRequestedFor(i)
      /\ toolCalls[i].repaired <=> ~suppliedArgsValid(i)

\* A hybrid run with a repaired call followed by a call that needed no repair.
C13_Witness ==
  /\ isHybrid /\ inAttempt
  /\ requests = <<"hybrid_turn", "repair", "hybrid_turn">>
  /\ Len(toolCalls) = 2
  /\ toolCalls[1].repaired
  /\ ~toolCalls[2].repaired

\* The argumentsJson of the i-th record's dispatch call is not well-formed JSON.
syntacticallyBroken(i) == suppliedCall(i).args.argumentsJson.form \in {"trailing_comma", "fenced"}

inRouterRun == isRouter /\ inAttempt /\ requests # <<>>

\* C14 as stated: every router record whose dispatch call carried a syntactically
\* broken argumentsJson has repaired = true.
C14_BrokenJsonIsFlaggedRepaired ==
  inRouterRun =>
    \A i \in 1..Len(toolCalls) : syntacticallyBroken(i) => toolCalls[i].repaired

\* The args the model's repair reply for the i-th record validates to.
repairedArgsOf(i) ==
  validateArgs(registry, suppliedCall(i).args.toolName,
               parseJsonWithRepair(responses[turnRequestOf(i) + 1].text).value).args

\* What the Recovery Pipeline and the schema make of the i-th record's argumentsJson.
recoveredArgsOf(i) ==
  validateArgs(registry, suppliedCall(i).args.toolName,
               parseObjectWithRepair(suppliedCall(i).args.argumentsJson,
                                     "dispatch argumentsJson").value)

\* C14 (amended): a router record has repaired = true and the args of the model's repair
\* reply exactly when its argumentsJson, as recovered by the Recovery Pipeline, failed
\* the tool's schema; a syntactically broken argumentsJson that the Recovery Pipeline
\* alone recovers into valid arguments gives repaired = false and those arguments.
C14_RouterRepairedRecord ==
  inRouterRun =>
    \A i \in 1..Len(toolCalls) :
      IF recoveredArgsOf(i).ok
        THEN /\ ~toolCalls[i].repaired
             /\ toolCalls[i].args = recoveredArgsOf(i).args
        ELSE /\ toolCalls[i].repaired
             /\ repairRequestedFor(i)
             /\ toolCalls[i].args = repairedArgsOf(i)
             /\ toolCalls[i].args # recoveredArgsOf(i).args

\* A dispatch with a trailing comma and a non-numeric element was repaired by the model.
C14_Witness ==
  /\ inRouterRun
  /\ Len(toolCalls) = 1
  /\ syntacticallyBroken(1)
  /\ toolCalls[1].repaired
  /\ toolCalls[1].args.numbers = <<Num(1), Num(2)>>
  /\ toolCalls[1].result = [total |-> 3]

\* The hybrid turn's function call names a registered tool with args that fail direct
\* validation.
hybridCallNeedsRepair(reply) ==
  /\ reply.functionCalls # <<>>
  /\ has(registry, reply.functionCalls[1].name)
  /\ ~validateRawToolArgs(reply.functionCalls[1].name, reply.functionCalls[1].args).ok

configuredRepairModel ==
  IF config.repairModel # "undefined" THEN config.repairModel ELSE config.models[cell.m]

C15_RepairRequested ==
  (pc = "hr_await_turn" /\ answered /\ hybridCallNeedsRepair(answer)) =>
    /\ pc' = "hr_await_repair"
    /\ requests' = Append(requests, "repair")
    /\ addressed' = Append(addressed, configuredRepairModel)
    /\ toolCalls' = toolCalls
    /\ executed' = executed

C15_RepairedArgsExecuted ==
  (pc = "hr_await_repair" /\ answered /\ repairReplyValid(answer)) =>
    /\ requests' = requests
    /\ Len(toolCalls') = Len(toolCalls) + 1
    /\ toolCalls'[Len(toolCalls')].repaired
    /\ toolCalls'[Len(toolCalls')].toolName = pending.toolName
    /\ toolCalls'[Len(toolCalls')].args =
         validateArgs(registry, pending.toolName, parseJsonWithRepair(answer.text).value).args
    /\ executed' = Append(executed, [attempt |-> attempt, toolName |-> pending.toolName,
                                     args |-> toolCalls'[Len(toolCalls')].args])

\* C15: a hybrid-repair function call for a registered tool whose args fail direct
\* validation (schema-invalid object, unrecoverable string, array, missing) gets exactly
\* one repair request, addressed to the repair model when one is configured and to the
\* main model otherwise; a reply that validates is executed once, with repaired = true.
C15_HybridRepairPath == [][C15_RepairRequested /\ C15_RepairedArgsExecuted]_vars

\* An array given as args was repaired by the configured repair model.
C15_Witness ==
  /\ isHybrid /\ inAttempt
  /\ config.repairModel = "model-r"
  /\ requests = <<"hybrid_turn", "repair">>
  /\ addressed = <<"model-a", "model-r">>
  /\ responses[1].functionCalls[1].args = JsonArray
  /\ Len(toolCalls) = 1
  /\ toolCalls[1].repaired
  /\ Len(executedIn(attempt)) = 1

C16_FallbackEntry ==
  (isHybrid /\ requests' # requests /\ requests' # <<>>
     /\ requests'[Len(requests')] = "tool_intent") =>
    /\ pc = "hr_await_turn"
    /\ answered
    /\ answer.functionCalls = <<>>
    /\ trim(plainChars(answer.text)) = ""
    /\ executedIn(attempt) = <<>>
    /\ requests' = Append(requests, "tool_intent")
    /\ \A j \in 1..Len(requests) : requests[j] # "tool_intent"

C16_FallbackOutcome ==
  (pc = "hr_await_fallback" /\ answered) =>
    /\ requests' = requests
    /\ executed' = executed
    /\ toolCalls' = <<>>
    /\ pc' \in {"returned", "threw"}
    /\ pc' = "returned" =>
         /\ parseToolIntentText(answer.text).ok
         /\ finalText' =
              IF parseToolIntentText(answer.text).intent.action = "respond"
                THEN parseToolIntentText(answer.text).intent.response
                ELSE "Fallback selected tool '"
                       \o parseToolIntentText(answer.text).intent.toolName
                       \o "', but no direct execution was run in fallback mode."

\* C16: hybrid-repair takes the structured-intent fallback only on a turn without a
\* function call, with empty text and with no tool executed so far; the fallback sends
\* one selection request and executes nothing, so toolCalls stays empty, and finalText
\* is the intent's response (respond) or the fixed not-executed notice (call_tool).
C16_HybridFallback == [][C16_FallbackEntry /\ C16_FallbackOutcome]_vars

\* The fallback selected sum_numbers and returned the notice without running it.
C16_Witness ==
  /\ isHybrid /\ inAttempt /\ pc = "returned"
  /\ requests = <<"hybrid_turn", "tool_intent">>
  /\ finalText =
       "Fallback selected tool 'sum_numbers', but no direct execution was run in fallback mode."
  /\ toolCalls = <<>>
  /\ executedIn(attempt) = <<>>

\* The router leaves its turn loop because the budget is used up.
routerBudgetExhausted == pc = "str_loop" /\ pc' = "returned"

lastExecuted == executedIn(attempt)[Len(executedIn(attempt))]

\* C17 as stated: whenever the router's turn budget is exhausted, finalText is the last
\* tool result serialized as JSON.
C17_ExhaustedReturnsLastResult ==
  [][routerBudgetExhausted =>
       /\ toolCalls # <<>>
       /\ finalText' = jsonStringify(toolCalls[Len(toolCalls)].result)]_vars

configuredRouterTurns == Nullish(config.routerMaxTurns, ROUTER_DEFAULT_MAX_TURNS)

\* C17 (amended): when a budget of at least one turn is exhausted, every turn has
\* executed a tool and finalText is the result of the last execution serialized as JSON;
\* with a budget of zero turns no request is made and finalText is "No result.".
C17_RouterExhaustion ==
  [][routerBudgetExhausted =>
       /\ toolCalls' = toolCalls
       /\ requests' = requests
       /\ IF configuredRouterTurns >= 1
            THEN /\ Len(toolCalls) = configuredRouterTurns
                 /\ Len(executedIn(attempt)) = configuredRouterTurns
                 /\ toolCalls[Len(toolCalls)].toolName = lastExecuted.toolName
                 /\ toolCalls[Len(toolCalls)].args = lastExecuted.args
                 /\ finalText' = jsonStringify(toolCalls[Len(toolCalls)].result)
            ELSE /\ toolCalls = <<>>
                 /\ requests = <<>>
                 /\ finalText' = "No result."]_vars

\* Two turns, a sum and then a sort: the final text is the sort result.
C17_Witness ==
  /\ isRouter /\ inAttempt /\ pc = "returned"
  /\ requests = <<"dispatch", "dispatch">>
  /\ Len(toolCalls) = 2
  /\ toolCalls[1].toolName = "sum_numbers"
  /\ toolCalls[2].toolName = "sort_numbers"
  /\ finalText = jsonStringify(toolCalls[2].result)

configuredHybridTurns == Nullish(config.hybridMaxTurns, HYBRID_DEFAULT_MAX_TURNS)

\* Every turn of the hybrid budget has ended in a tool execution.
hybridAllTurnsExecuted ==
  /\ isHybrid /\ inAttempt /\ pc = "hr_loop"
  /\ Len(executedIn(attempt)) >= configuredHybridTurns

C18_ExhaustedMeansAllTurnsExecuted ==
  (pc = "hr_loop" /\ pc' = "returned") => hybridAllTurnsExecuted

C18_AllTurnsExecutedReturnsNotice ==
  (hybridAllTurnsExecuted /\ pc' # pc) =>
    /\ pc' = "returned"
    /\ finalText' = "No final text response after max tool turns."
    /\ toolCalls' = toolCalls
    /\ Len(toolCalls) = Max(0, configuredHybridTurns)
    /\ callKeys(toolCalls) = executedKeys(attempt)
    /\ requests' = requests
    /\ \A j \in 1..Len(requests) : requests[j] # "final_response"

\* C18: when every one of the maxTurns hybrid turns has ended in a tool execution the
\* run returns the fixed no-final-text message with all maxTurns ToolCallRecords, and
\* makes no finalization request.
C18_HybridExhaustion ==
  [][C18_ExhaustedMeansAllTurnsExecuted /\ C18_AllTurnsExecutedReturnsNotice]_vars

\* Two turns, two executions, then the fixed message.
C18_Witness ==
  /\ isHybrid /\ inAttempt /\ pc = "returned"
  /\ config.hybridMaxTurns = Given(2)
  /\ Len(toolCalls) = 2
  /\ Len(executedIn(attempt)) = 2
  /\ finalText = "No final text response after max tool turns."

\* The response of the turn whose function call is being executed in this step: the
\* one just received, or, when a repair reply was just received, the one before it.
executingTurnReply ==
  IF awaitingRepair THEN responses[Len(responses)] ELSE answer

\* raw is an object whose first candidate's content has a function-call part.
rawCarriesFunctionCall(raw) ==
  /\ Has(raw, "candidates")
  /\ raw.candidates # <<>>
  /\ Has(raw.candidates[1], "content")
  /\ Has(raw.candidates[1].content, "parts")
  /\ \E k \in 1..Len(raw.candidates[1].content.parts) :
       Has(raw.candidates[1].content.parts[k], "functionCall")

toolExecutedInStep == (isRouter \/ isHybrid) /\ answered /\ executed' # executed

C19_RawTurnReplayed ==
  (toolExecutedInStep /\ rawCarriesFunctionCall(executingTurnReply.raw)) =>
    /\ Len(contents') = Len(contents) + 2
    /\ SubSeq(contents', 1, Len(contents)) = contents
    /\ contents'[Len(contents) + 1] = executingTurnReply.raw.candidates[1].content
    /\ contents'[Len(contents) + 2].kind = "functionResponse"
    /\ contents'[Len(contents) + 2].response.result = toolCalls'[Len(toolCalls')].result

\* C19: after a tool execution in the router or in hybrid-repair, when the response's
\* raw value has a first-candidate content with a function-call part, that content is
\* appended to the history unmodified (thought signature included), directly followed
\* by the function-response turn carrying the tool result.
C19_RawModelTurnReplay == [][C19_RawTurnReplayed]_vars

\* The second router request carries the model's own turn with its thought signature.
C19_Witness ==
  /\ isRouter /\ inAttempt
  /\ requests = <<"dispatch", "dispatch">>
  /\ Len(contents) = 3
  /\ rawCarriesFunctionCall(responses[1].raw)
  /\ contents[2] = responses[1].raw.candidates[1].content
  /\ contents[2].parts[1].thoughtSignature = "sig-1"
  /\ contents[3].kind = "functionResponse"
  /\ contents[3].response.result = [total |-> 3]

\* The reply to a selection, dispatch or native-calling request names a tool to run
\* that the registry does not hold.
namesUnregisteredTool(reply) ==
  IF pc = "sj_await_intent"
    THEN /\ parseToolIntentText(reply.text).ok
         /\ parseToolIntentText(reply.text).intent.action = "call_tool"
         /\ ~has(registry, parseToolIntentText(reply.text).intent.toolName)
  ELSE IF pc = "str_await_dispatch"
    THEN /\ reply.functionCalls # <<>>
         /\ dispatchPayloadIssues(reply.functionCalls[1].args) = <<>>
         /\ ~has(registry, reply.functionCalls[1].args.toolName)
  ELSE IF pc = "hr_await_turn"
    THEN /\ reply.functionCalls # <<>>
         /\ reply.functionCalls[1].name # "undefined"
         /\ ~has(registry, reply.functionCalls[1].name)
  ELSE FALSE

\* The reply to the hybrid fallback's selection request names such a tool.
fallbackNamesUnregisteredTool(reply) ==
  /\ pc = "hr_await_fallback"
  /\ parseToolIntentText(reply.text).ok
  /\ parseToolIntentText(reply.text).intent.action = "call_tool"
  /\ ~has(registry, parseToolIntentText(reply.text).intent.toolName)

endsAttemptWithError ==
  /\ pc' = "threw"
  /\ toolCalls' = toolCalls
  /\ executed' = executed
  /\ requests' = requests

\* C20 as stated: in every strategy a reply naming an unregistered tool ends the attempt
\* with an error.
C20_UnknownToolAlwaysRaises ==
  [][(answered /\ (namesUnregisteredTool(answer) \/ fallbackNamesUnregisteredTool(answer)))
       => endsAttemptWithError]_vars

C20_UnknownToolRaises ==
  (answered /\ namesUnregisteredTool(answer)) => endsAttemptWithError

C20_FallbackOnlyReports ==
  (answered /\ fallbackNamesUnregisteredTool(answer)) =>
    /\ pc' = "returned"
    /\ toolCalls' = toolCalls
    /\ executed' = executed
    /\ requests' = requests

\* A failed attempt is left only through runStrategy: next attempt, or the run's error.
C20_RetryIsAnotherAttempt ==
  (pc = "threw" /\ pc' # pc) =>
    /\ pc' = "idle"
    /\ \/ rpc' = "loop" /\ attempt' = attempt + 1
       \/ rpc' = "thrown" /\ attempt' = attempt

\* C20 (amended): a structured-json selection, a router dispatch call or a hybrid-repair
\* function call naming an unregistered tool ends the attempt with an error at once: no
\* execution, no ToolCallRecord, no repair request, and a retry only as a new attempt.
\* In the hybrid fallback the selected name is not looked up: no execution, no record
\* and no request either, but the run returns its not-executed notice.
C20_UnknownTool ==
  [][C20_UnknownToolRaises /\ C20_FallbackOnlyReports /\ C20_RetryIsAnotherAttempt]_vars

\* The router stopped while building the repair request for an unregistered tool.
C20_Witness ==
  /\ isRouter /\ inAttempt /\ pc = "threw"
  /\ requests = <<"dispatch">>
  /\ runnerError = "Unknown tool: launch_rocket"
  /\ toolCalls = <<>>
  /\ executedIn(attempt) = <<>>

(***************************************************************************)
(* Properties of GoogleModelClient, under GoogleSpec.                      *)
(***************************************************************************)
\* A rate-limit or service-unavailable signal in the text of the error.
transientSignal(error) ==
  \E i \in 1..Len(error) :
    error[i].text \in {"RESOURCE_EXHAUSTED", "rate_limit", "\"code\":429",
                       "service_unavailable", "\"code\":503"}

transportFailed == gpc = "awaiting" /\ gpc' \in {"sleeping", "rejected"}

C21_InvocationsBounded ==
  /\ invocations <= MAX_TRANSIENT_RETRIES + 1
  /\ gpc \in {"awaiting", "resolved", "rejected"} => invocations = Len(sleeps) + 1
  /\ gpc = "sleeping" => invocations = Len(sleeps)
  /\ gpc = "sleeping" => transientSignal(callError) /\ invocations <= MAX_TRANSIENT_RETRIES
  /\ gpc = "rejected" => ~transientSignal(callError) \/ invocations = MAX_TRANSIENT_RETRIES + 1

C21_FailureClassified ==
  transportFailed =>
    /\ invocations' = invocations
    /\ gpc' = "sleeping" <=>
         (transientSignal(callError') /\ invocations <= MAX_TRANSIENT_RETRIES)
    /\ (~transientSignal(callError') /\ sleeps = <<>>) =>
         (gpc' = "rejected" /\ invocations' = 1)

\* A rejected call is not invoked again: the next invocation belongs to a new call.
C21_RejectedIsFinal ==
  (gpc = "rejected" /\ gpc' # gpc) => (gpc' = "idle" /\ invocations' = invocations)

\* C21: one model call re-invokes the transport only after a transient failure and at
\* most twice (three invocations in all); a non-transient failure propagates after the
\* invocation that met it, and a transient one on the third invocation propagates too.
C21_TransientRetry ==
  []C21_InvocationsBounded /\ [][C21_FailureClassified /\ C21_RejectedIsFinal]_vars

\* A transient failure of the third invocation has propagated.
C21_Witness ==
  /\ gpc = "rejected"
  /\ invocations = 3
  /\ transientSignal(callError)
  /\ Len(sleeps) = 2

timeoutText == "Gemini request timed out after 45000ms"
timedOut == gpc = "awaiting" /\ callError' = timeoutMessage

C22_TimeoutNotRetried ==
  timedOut => (gpc' = "rejected" /\ sleeps' = sleeps /\ invocations' = invocations)

C22_TimeoutFailsAttempt ==
  (gpc = "rejected" /\ callError = timeoutMessage /\ gpc' # gpc) =>
    /\ pc \in AwaitingModel
    /\ pc' = "threw"
    /\ runnerError' = timeoutText
    /\ attempt' = attempt
    /\ invocations' = invocations

C22_RetryIsAnotherAttempt ==
  (pc = "threw" /\ runnerError = timeoutText /\ pc' # pc) =>
    /\ pc' = "idle"
    /\ invocations' = invocations
    /\ \/ rpc' = "loop" /\ attempt' = attempt + 1
       \/ rpc' = "thrown" /\ attempt' = attempt

\* C22: a model call whose timeout expires rejects with the timeout error without the
\* transport being invoked again or a backoff wait; the error ends the strategy attempt,
\* and only runStrategy may go on to another attempt.
C22_TimeoutIsNonTransient ==
  [][C22_TimeoutNotRetried /\ C22_TimeoutFailsAttempt /\ C22_RetryIsAnotherAttempt]_vars

\* The second attempt runs after the first one's model call timed out on its only
\* invocation.
C22_Witness ==
  /\ rpc = "attempt" /\ attempt = 2
  /\ errors # <<>>
  /\ callError = timeoutMessage
  /\ invocations = 1
  /\ sleeps = <<>>
  /\ pc = "start"

\* The hints an error text carries, in milliseconds.
carriedHintsMs(error) ==
  { ceilDiv(error[i].num * 1000, error[i].den) :
      i \in {j \in 1..Len(error) : error[j].hint # "none"} }

\* The hint read from an error text: its first "retryDelay":"<n>s" field if that is
\* positive, else its first "retry in <x>s" phrase if that is positive.
readHintMs(error) ==
  LET fields == {j \in 1..Len(error) : error[j].hint = "retryDelay"}
      phrases == {j \in 1..Len(error) : error[j].hint = "retryIn"}
      field == CHOOSE j \in fields : \A k \in fields : j <= k
      phrase == CHOOSE j \in phrases : \A k \in phrases : j <= k
  IN IF fields # {} /\ error[field].num > 0 THEN {error[field].num * 1000}
     ELSE IF phrases # {} /\ error[phrase].num > 0
       THEN {ceilDiv(error[phrase].num * 1000, error[phrase].den)}
     ELSE {}

retryIndex == Len(sleeps) + 1
waited == sleeps'[Len(sleeps')]

\* C23 as stated: whenever the error text carries a hint, the wait is that hint.
C23_WaitIsAnyCarriedHint ==
  [][(transportFailed /\ gpc' = "sleeping") =>
       /\ sleeps' = Append(sleeps, waited)
       /\ IF carriedHintsMs(callError') # {}
            THEN waited \in carriedHintsMs(callError')
            ELSE waited = 2000 * retryIndex]_vars

C23_Wait ==
  (transportFailed /\ gpc' = "sleeping") =>
    /\ sleeps' = Append(sleeps, waited)
    /\ retryIndex \in 1..2
    /\ IF readHintMs(callError') # {}
         THEN waited \in readHintMs(callError')
         ELSE waited = 2000 * retryIndex

C23_NoWaitBeforePropagation ==
  (transportFailed /\ gpc' = "rejected") => sleeps' = sleeps

C23_OnlyCatchWaits ==
  ~transportFailed => (sleeps' = sleeps \/ sleeps' = <<>>)

\* C23 (amended): before the k-th transient retry (k = 1, 2) the transport waits the
\* positive retry-after hint read from the error text, in milliseconds, and otherwise
\* (no hint, or a hint of zero seconds) 2000 ms x k; nothing is waited before a
\* propagated error.
C23_Backoff ==
  [][C23_Wait /\ C23_NoWaitBeforePropagation /\ C23_OnlyCatchWaits]_vars

\* Two retries: the first waited the rounded-up 0.0004 s hint, the second, on a hint of
\* zero seconds, the default of the second retry.
C23_Witness ==
  /\ gpc = "sleeping"
  /\ sleeps = <<1, 4000>>
  /\ callError = <<Lit("RESOURCE_EXHAUSTED"), Lit(" "), RetryDelayField(0)>>

(***************************************************************************)
(* The library functions applied on their own: the arguments are drawn at  *)
(* the start, one step applies the function.                               *)
(***************************************************************************)
JsonNull == [json |-> "null"]
ArgsExtraKey == [json |-> "object", numbers |-> <<Num(3)>>, note |-> "ignored"]

ValidateArgsCalls ==
  [fn : {"validateArgs"}, name : ToolNames,
   raw : RawArgs \cup {ArgsNoItems, ArgsBadOrder, ArgsExtraKey, JsonArray, JsonNull,
                       StringArgs(EmptyText)}]

returned(value) == [kind |-> "returned", value |-> value]
threw(message) == [kind |-> "threw", message |-> message]

applies(fn) == libCall.fn = fn /\ libResult = NoResult
libStep(result) ==
  /\ libResult' = result
  /\ UNCHANGED <<libCall, benchVars, rsVars, runnerVars, observerVars, clientVars>>

ToolRegistry_validateArgs ==
  /\ applies("validateArgs")
  /\ libStep(returned(validateArgs(registry, libCall.name, libCall.raw)))

\* JSON-serializable values, one of them an object with a string holding "{"; every
\* one written strictly and in a fence, the arrays and objects also with a trailing
\* comma, the objects also followed by prose; and the texts that are no value.
JsonStringDone == [json |-> "string", chars |-> "done"]
ObjectWithBraceInString == [json |-> "object", note |-> "{"]
JsonObjects ==
  {EmptyObject, ArgsSum12, ArgsDesc21, respondIntent("Direct answer"),
   callToolIntent("sum_numbers", ArgsSum12), ObjectWithBraceInString}
JsonValues == JsonObjects \cup {JsonArray, JsonNull, JsonStringDone}

ParseJsonCalls ==
  [fn : {"parseJsonWithRepair"},
   raw : {Text(form, v) : form \in {"strict", "fenced"}, v \in JsonValues}
           \cup {Text("trailing_comma", v) : v \in JsonObjects \cup {JsonArray}}
           \cup {Text("fenced_trailing_comma", v) : v \in JsonObjects}
           \cup {Text("trailing_prose", v) : v \in JsonObjects}
           \cup {EmptyText, Text("fenced_empty", EmptyObject), PlainText("Hello there"),
                  Text("array_prose", JsonArray), Text("unkeyed", EmptyObject),
                  Text("unkeyed_prose", EmptyObject)}]

outcomeOf(result, value) == IF result.ok THEN returned(value) ELSE threw(result.error)

parseJsonWithRepair_call ==
  /\ applies("parseJsonWithRepair")
  /\ libStep(outcomeOf(parseJsonWithRepair(libCall.raw),
                       parseJsonWithRepair(libCall.raw).value))

(***************************************************************************)
(* Benchmark statistics (src/src/benchmark.ts).  A quotient is kept as     *)
(* [num, den], a value rounded to two decimals as its hundredths.          *)
(***************************************************************************)
Quotient(num, den) == [num |-> num, den |-> den]
Half == Quotient(1, 2)
NineteenTwentieths == Quotient(19, 20)

\* Math.round of the non-negative num/den.
roundDiv(num, den) == (2 * num + den) \div (2 * den)

\* Line 267 cutting the digits off instead of rounding; in hundredths.
round2Truncating(num, den) == (num * 100) \div den
round2(num, den) == roundDiv(num * 100, den)

\* Line 263 without the "- 1".
percentileOneTooHigh(values, q) ==
  IF Len(values) = 0 THEN 0
  ELSE values[Max(0, Min(Len(values) - 1, ceilDiv(Len(values) * q.num, q.den))) + 1]

\* values[index] of the 0-based index of line 263.
percentile(values, q) ==
  IF Len(values) = 0 THEN 0
  ELSE values[Max(0, Min(Len(values) - 1, ceilDiv(Len(values) * q.num, q.den) - 1)) + 1]

RECURSIVE sortAscending(_)
sortAscending(values) ==
  IF values = <<>> THEN <<>> ELSE Insert(Head(values), sortAscending(Tail(values)))

RECURSIVE sumOver(_, _)
sumOver(group, field) ==
  IF group = <<>> THEN 0 ELSE Head(group)[field] + sumOver(Tail(group), field)

countWhere(group, test(_)) == Len(SelectSeq(group, test))

keyOf(record) == record.model \o "::" \o record.strategy

\* Lines 161-166: the keys of the Map, in the order of their first record.
RECURSIVE groupKeys(_, _)
groupKeys(recs, seen) ==
  IF recs = <<>> THEN seen
  ELSE IF \E i \in 1..Len(seen) : seen[i] = keyOf(Head(recs))
    THEN groupKeys(Tail(recs), seen)
  ELSE groupKeys(Tail(recs), Append(seen, keyOf(Head(recs))))

groupOf(recs, key) == SelectSeq(recs, LAMBDA r : keyOf(r) = key)

\* Lines 170-199.
aggregateRow(key, group) ==
  LET totalRuns == Len(group)
      successRuns == countWhere(group, LAMBDA item : item.success)
      failureRuns == totalRuns - successRuns
      sumDuration == sumOver(group, "durationMs")
      durations == sortAscending([i \in 1..Len(group) |-> group[i].durationMs])
      sumToolCalls == sumOver(group, "toolCalls")
      sumRepairedCalls == sumOver(group, "repairedCalls")
      toolUsedRuns == countWhere(group, LAMBDA item : item.toolCalls > 0)
      sumAttempts == sumOver(group, "attempts")
  IN [key |-> key,
      strategy |-> group[1].strategy,
      model |-> group[1].model,
      totalRuns |-> totalRuns,
      successRuns |-> successRuns,
      failureRuns |-> failureRuns,
      successRate |-> IF totalRuns > 0 THEN Quotient(successRuns, totalRuns)
                                       ELSE Quotient(0, 1),
      errorRate |-> IF totalRuns > 0 THEN Quotient(failureRuns, totalRuns)
                                     ELSE Quotient(0, 1),
      avgDurationMs |-> IF totalRuns > 0 THEN roundDiv(sumDuration, totalRuns) ELSE 0,
      medianDurationMs |-> percentile(durations, Half),
      p95DurationMs |-> percentile(durations, NineteenTwentieths),
      avgToolCalls |-> IF totalRuns > 0 THEN round2(sumToolCalls, totalRuns) ELSE 0,
      avgRepairedCalls |-> IF totalRuns > 0 THEN round2(sumRepairedCalls, totalRuns) ELSE 0,
      repairRate |-> IF sumToolCalls > 0 THEN round2(sumRepairedCalls, sumToolCalls) ELSE 0,
      toolUseRate |-> IF totalRuns > 0 THEN round2(toolUsedRuns, totalRuns) ELSE 0,
      avgAttempts |-> IF totalRuns > 0 THEN round2(sumAttempts, totalRuns) ELSE 0]

\* String.prototype.localeCompare on the names in use.
Collation ==
  <<"hybrid-repair", "model-a", "model-b", "single-tool-router", "structured-json">>
collationRank(name) == CHOOSE i \in 1..Len(Collation) : Collation[i] = name
localeCompare(a, b) == collationRank(a) - collationRank(b)

\* Lines 202-205: the comparator of the final sort.
compareRows(a, b) ==
  IF localeCompare(a.strategy, b.strategy) # 0 THEN localeCompare(a.strategy, b.strategy)
  ELSE localeCompare(a.model, b.model)

RECURSIVE insertRow(_, _)
insertRow(row, sorted) ==
  IF sorted = <<>> THEN <<row>>
  ELSE IF compareRows(row, Head(sorted)) < 0 THEN <<row>> \o sorted
  ELSE <<Head(sorted)>> \o insertRow(row, Tail(sorted))

\* Line 202 returning the rows in Map order.
sortRowsSkipped(rows) == rows

RECURSIVE sortRows(_)
sortRows(rows) ==
  IF rows = <<>> THEN <<>>
  ELSE insertRow(rows[Len(rows)], sortRows(SubSeq(rows, 1, Len(rows) - 1)))

buildAggregates(recs) ==
  LET keys == groupKeys(recs, <<>>)
  IN sortRows([i \in 1..Len(keys) |-> aggregateRow(keys[i], groupOf(recs, keys[i]))])

\* BenchmarkRunRecords: the three of the aggregate test and four of other groups, one
\* of them without a tool call.
runRecord(model, strategy, success, durationMs, attempts, calls, repaired) ==
  [model |-> model, strategy |-> strategy, success |-> success, durationMs |-> durationMs,
   attempts |-> attempts, toolCalls |-> calls, repairedCalls |-> repaired]

ExampleRecords ==
  <<runRecord("model-a", "structured-json", TRUE, 100, 1, 2, 1),
    runRecord("model-a", "structured-json", FALSE, 300, 2, 0, 0),
    runRecord("model-a", "structured-json", TRUE, 200, 1, 1, 0)>>

RecordPool ==
  {ExampleRecords[i] : i \in 1..3}
    \cup {runRecord("model-b", "structured-json", TRUE, 120, 1, 0, 0),
          runRecord("model-b", "hybrid-repair", TRUE, 150, 1, 3, 2),
          runRecord("model-a", "hybrid-repair", FALSE, 301, 2, 0, 0),
          runRecord("model-a", "single-tool-router", TRUE, 100, 3, 1, 1)}

SeqsUpTo(pool, n) == UNION {[1..k -> pool] : k \in 0..n}

BuildAggregatesCalls == [fn : {"buildAggregates"}, records : SeqsUpTo(RecordPool, MaxRecords)]

DurationPool == {100, 200, 300}
PercentileCalls ==
  [fn : {"percentile"},
   values : {sortAscending(v) : v \in SeqsUpTo(DurationPool, MaxRecords)},
   q : {Half, NineteenTwentieths}]

buildAggregates_call ==
  /\ applies("buildAggregates")
  /\ libStep(returned(buildAggregates(libCall.records)))

percentile_call ==
  /\ applies("percentile")
  /\ libStep(returned(percentile(libCall.values, libCall.q)))

(***************************************************************************)
(* buildComparisons (benchmark.ts 208-257).                                *)
(***************************************************************************)
\* The sign of a - b for two quotients with positive denominators.
quotientMinus(a, b) == a.num * b.den - b.num * a.den

\* Lines 246-257 without the success-rate comparison.
compareAggregateRowsIgnoringRate(a, b) ==
  IF a.avgDurationMs # b.avgDurationMs THEN a.avgDurationMs - b.avgDurationMs
  ELSE IF a.avgAttempts # b.avgAttempts THEN a.avgAttempts - b.avgAttempts
  ELSE localeCompare(a.strategy, b.strategy)

compareAggregateRows(a, b) ==
  IF quotientMinus(a.successRate, b.successRate) # 0
    THEN quotientMinus(b.successRate, a.successRate)
  ELSE IF a.avgDurationMs # b.avgDurationMs THEN a.avgDurationMs - b.avgDurationMs
  ELSE IF a.avgAttempts # b.avgAttempts THEN a.avgAttempts - b.avgAttempts
  ELSE localeCompare(a.strategy, b.strategy)

\* Array.prototype.sort: stable, by insertion from the left.
RECURSIVE insertBy(_, _, _)
insertBy(compare(_, _), item, sorted) ==
  IF sorted = <<>> THEN <<item>>
  ELSE IF compare(item, Head(sorted)) < 0 THEN <<item>> \o sorted
  ELSE <<Head(sorted)>> \o insertBy(compare, item, Tail(sorted))

RECURSIVE sortBy(_, _)
sortBy(compare(_, _), items) ==
  IF items = <<>> THEN <<>>
  ELSE insertBy(compare, items[Len(items)], sortBy(compare, SubSeq(items, 1, Len(items) - 1)))

\* Lines 209-215: the models of the Map, in the order of their first row.
RECURSIVE groupModels(_, _)
groupModels(aggregates, seen) ==
  IF aggregates = <<>> THEN seen
  ELSE IF \E i \in 1..Len(seen) : seen[i] = Head(aggregates).model
    THEN groupModels(Tail(aggregates), seen)
  ELSE groupModels(Tail(aggregates), Append(seen, Head(aggregates).model))

\* Lines 226-236 with the two rates exchanged at line 233.
comparisonRowRatesExchanged(model, row, baseline) ==
  [model |-> model,
   strategy |-> row.strategy,
   successRate |-> row.successRate,
   avgDurationMs |-> row.avgDurationMs,
   avgToolCalls |-> row.avgToolCalls,
   avgRepairedCalls |-> row.avgRepairedCalls,
   deltaSuccessRate |->
     round2(100 * quotientMinus(row.successRate, baseline.successRate),
            baseline.successRate.den * row.successRate.den),
   deltaDurationMs |-> row.avgDurationMs - baseline.avgDurationMs,
   deltaToolCalls |-> row.avgToolCalls - baseline.avgToolCalls]

\* Lines 226-236; deltaSuccessRate and deltaToolCalls in hundredths.
comparisonRow(model, row, baseline) ==
  [model |-> model,
   strategy |-> row.strategy,
   successRate |-> row.successRate,
   avgDurationMs |-> row.avgDurationMs,
   avgToolCalls |-> row.avgToolCalls,
   avgRepairedCalls |-> row.avgRepairedCalls,
   deltaSuccessRate |->
     round2(100 * quotientMinus(baseline.successRate, row.successRate),
            baseline.successRate.den * row.successRate.den),
   deltaDurationMs |-> row.avgDurationMs - baseline.avgDurationMs,
   deltaToolCalls |-> row.avgToolCalls - baseline.avgToolCalls]

\* Lines 218-238: the rows one model pushes to the output.
comparisonsOfModel(aggregates, model) ==
  LET sorted == sortBy(compareAggregateRows, SelectSeq(aggregates, LAMBDA r : r.model = model))
  IN [i \in 1..Len(sorted) |-> comparisonRow(model, sorted[i], sorted[1])]

RECURSIVE flatten(_)
flatten(lists) == IF lists = <<>> THEN <<>> ELSE Head(lists) \o flatten(Tail(lists))

\* Lines 241-244: the comparator of the final sort.
compareComparisons(a, b) ==
  IF localeCompare(a.model, b.model) # 0 THEN localeCompare(a.model, b.model)
  ELSE a.deltaSuccessRate - b.deltaSuccessRate

\* Line 241 returning the rows in the order they were pushed.
sortComparisonsSkipped(output) == output

sortComparisons(output) == sortBy(compareComparisons, output)

buildComparisons(aggregates) ==
  LET models == groupModels(aggregates, <<>>)
  IN sortComparisons(flatten([i \in 1..Len(models) |-> comparisonsOfModel(aggregates, models[i])]))

\* The five records of the comparison test, and records of one or two runs per
\* strategy that tie with or undercut one another.
ComparisonExample ==
  <<runRecord("model-a", "structured-json", TRUE, 180, 1, 1, 0),
    runRecord("model-a", "single-tool-router", TRUE, 160, 1, 2, 0),
    runRecord("model-a", "single-tool-router", TRUE, 150, 1, 2, 0),
    runRecord("model-a", "hybrid-repair", FALSE, 240, 1, 1, 0),
    runRecord("model-a", "hybrid-repair", TRUE, 220, 1, 1, 0)>>

ComparisonPool ==
  {runRecord("model-a", "structured-json", TRUE, 180, 1, 1, 0),
   runRecord("model-a", "structured-json", FALSE, 90, 2, 0, 0),
   runRecord("model-a", "single-tool-router", TRUE, 180, 1, 2, 1),
   runRecord("model-a", "single-tool-router", TRUE, 150, 2, 2, 0),
   runRecord("model-a", "hybrid-repair", TRUE, 180, 2, 1, 0),
   runRecord("model-a", "hybrid-repair", FALSE, 240, 1, 1, 0),
   runRecord("model-b", "structured-json", TRUE, 120, 1, 0, 0),
   runRecord("model-b", "hybrid-repair", FALSE, 60, 1, 3, 2)}

BuildComparisonsCalls ==
  [fn : {"buildComparisons"},
   records : SeqsUpTo(ComparisonPool, MaxRecords) \cup {ComparisonExample}]

\* Lines 145-146 of runBenchmark.
buildComparisons_call ==
  /\ applies("buildComparisons")
  /\ libStep(returned(buildComparisons(buildAggregates(libCall.records))))

\* extractFirstBalancedJsonObject on strings of braces, quotes and other characters.
Chars == {"{", "}", "\"", "x"}
ExtractCalls == [fn : {"extractFirstBalancedJsonObject"}, input : SeqsUpTo(Chars, MaxChars)]

extractFirstBalancedJsonObject_call ==
  /\ applies("extractFirstBalancedJsonObject")
  /\ libStep(returned(firstBalancedSlice(libCall.input)))

(***************************************************************************)
(* getMenuWindow (src/src/tui-menu-window.ts).                             *)
(***************************************************************************)
MenuWindow(start, end) == [start |-> start, end |-> end]

\* Lines 6-31 without the shift of lines 25-28 at the bottom of the list.
getMenuWindowUnshifted(optionCount, selectedIndex, maxVisible) ==
  IF optionCount <= 0 \/ maxVisible <= 0 THEN MenuWindow(0, 0)
  ELSE LET clampedSelected == Min(Max(selectedIndex, 0), optionCount - 1)
           visibleCount == Min(maxVisible, optionCount)
           halfWindow == visibleCount \div 2
           start == IF clampedSelected - halfWindow < 0 THEN 0
                    ELSE clampedSelected - halfWindow
       IN MenuWindow(start, start + visibleCount)

getMenuWindow(optionCount, selectedIndex, maxVisible) ==
  IF optionCount <= 0 \/ maxVisible <= 0 THEN MenuWindow(0, 0)
  ELSE LET clampedSelected == Min(Max(selectedIndex, 0), optionCount - 1)
           visibleCount == Min(maxVisible, optionCount)
           halfWindow == visibleCount \div 2
           start == IF clampedSelected - halfWindow < 0 THEN 0
                    ELSE clampedSelected - halfWindow
           end == start + visibleCount
       IN IF end > optionCount THEN MenuWindow(optionCount - visibleCount, optionCount)
          ELSE MenuWindow(start, end)

menuCall(optionCount, selectedIndex, maxVisible) ==
  [fn |-> "getMenuWindow", optionCount |-> optionCount, selectedIndex |-> selectedIndex,
   maxVisible |-> maxVisible]

\* The calls of the test, and every call on a menu of up to MaxOptions options.
MenuWindowExamples ==
  {menuCall(6, 2, 10), menuCall(25, 0, 10), menuCall(25, 2, 10), menuCall(25, 12, 10),
   menuCall(25, 24, 10), menuCall(25, 22, 10)}

GetMenuWindowCalls ==
  MenuWindowExamples
    \cup {menuCall(n, i, v) : n \in (0 - 1)..MaxOptions, i \in (0 - 2)..(MaxOptions + 1),
                              v \in (0 - 1)..(MaxOptions + 1)}

getMenuWindow_call ==
  /\ applies("getMenuWindow")
  /\ libStep(returned(getMenuWindow(libCall.optionCount, libCall.selectedIndex,
                                    libCall.maxVisible)))

LibCalls ==
  ValidateArgsCalls \cup ParseJsonCalls \cup BuildAggregatesCalls \cup PercentileCalls
    \cup BuildComparisonsCalls \cup ExtractCalls \cup GetMenuWindowCalls

LibInit ==
  /\ Program({CHOOSE c \in SteadyClientConfigs : TRUE})
  /\ libCall \in LibCalls
  /\ libResult = NoResult

LibNext ==
  \/ ToolRegistry_validateArgs
  \/ parseJsonWithRepair_call
  \/ buildAggregates_call
  \/ percentile_call
  \/ buildComparisons_call
  \/ extractFirstBalancedJsonObject_call
  \/ getMenuWindow_call

LibSpec == LibInit /\ [][LibNext]_vars

\* The declared shape of the two modelled tools.
isNumberArray(value) ==
  /\ Len(value) >= 1
  /\ \A i \in 1..Len(value) : value[i].t = "number"

satisfiesDeclaredShape(name, raw) ==
  /\ isJsonObject(raw)
  /\ Has(raw, "numbers")
  /\ isNumberArray(raw.numbers)
  /\ name = "sort_numbers" => (~Has(raw, "order") \/ raw.order \in {"asc", "desc"})

validateArgsApplied == libCall.fn = "validateArgs" /\ libResult # NoResult

\* C24: validateArgs(name, raw) never throws; it returns ok:false with an error string
\* for an unregistered name or a raw value off the tool's schema, and ok:true exactly
\* when the name is registered and raw has the tool's declared shape.
C24_ValidateArgsTotal ==
  validateArgsApplied =>
    /\ libResult.kind = "returned"
    /\ libResult.value.ok <=>
         (libCall.name \in createDemoToolRegistry
            /\ satisfiesDeclaredShape(libCall.name, libCall.raw))
    /\ ~libResult.value.ok => libResult.value.error # ""
    /\ libCall.name \notin createDemoToolRegistry =>
         libResult.value.error = "Unknown tool: " \o libCall.name

\* A well-shaped argument object was validated against a name that is not registered.
C24_Witness ==
  /\ validateArgsApplied
  /\ libCall.name = UnknownToolName
  /\ libCall.raw = ArgsDesc21
  /\ ~libResult.value.ok

recovered == libCall.fn = "parseJsonWithRepair" /\ libResult # NoResult

\* C25: recover(JSON.stringify(v)) = v; recover also succeeds on v in a json fence, on v
\* with a trailing comma before its closing brace or bracket, and on v followed by
\* prose after its closing brace.
C25_RecoveryRoundTrip ==
  recovered =>
    /\ libCall.raw.form = "strict" => libResult = returned(libCall.raw.val)
    /\ libCall.raw.form \in {"fenced", "trailing_comma", "trailing_prose"} =>
         libResult.kind = "returned"

\* An object whose string holds "{", followed by prose, was not recovered.
C25_Diverges ==
  /\ recovered
  /\ libCall.raw = Text("trailing_prose", ObjectWithBraceInString)
  /\ libResult = threw("No JSON object found")

\* C26 as stated: recover fails with 'No JSON object found' and nothing else.
C26_OnlyNoJsonObjectFound ==
  (recovered /\ libResult.kind = "threw") => libResult.message = "No JSON object found"

blankAfterUnwrap(raw) == raw.form \in {"empty", "fenced_empty"}
\* Counting every brace character, those inside strings too, no prefix is balanced.
noBalancedBraces(raw) ==
  \A n \in 1..Len(braces(raw)) :
    Cardinality({i \in 1..n : braces(raw)[i] = "{"})
      # Cardinality({i \in 1..n : braces(raw)[i] = "}"})
needsExtraction(raw) == raw.form \in {"trailing_prose", "array_prose", "unkeyed_prose", "unkeyed"}

\* C26 (amended): recover fails with 'Empty JSON string' when the text is blank after
\* fence stripping; with 'No JSON object found' when strict parsing and the repair pass
\* fail and the brace scan finds no balanced {...}; with the repair pass's own error
\* when the balanced substring cannot be repaired; and it succeeds otherwise.
C26_RecoveryFailures ==
  recovered =>
    IF blankAfterUnwrap(libCall.raw) THEN libResult = threw("Empty JSON string")
    ELSE IF needsExtraction(libCall.raw) /\ noBalancedBraces(libCall.raw)
      THEN libResult = threw("No JSON object found")
    ELSE IF libCall.raw.form \in {"unkeyed", "unkeyed_prose"}
      THEN libResult = threw("Object key expected")
    ELSE libResult = returned(libCall.raw.val)

\* Step 4 found no "{" in an array followed by prose.
C26_Witness ==
  /\ recovered
  /\ libCall.raw = Text("array_prose", JsonArray)
  /\ libResult = threw("No JSON object found")

(***************************************************************************)
(* Selection intents, under Spec.                                          *)
(***************************************************************************)
awaitingSelection == pc \in {"sj_await_intent", "hr_await_fallback"}
selectionRecovered(reply) == awaitingSelection /\ parseJsonWithRepair(reply.text).ok
selectedValue(reply) == parseJsonWithRepair(reply.text).value

\* The fields the action of a selection needs are there.
carriesItsFields(value) ==
  \/ /\ value.action = "call_tool"
     /\ Truthy(value, "toolName")
     /\ Has(value, "args")
  \/ /\ value.action = "respond"
     /\ Truthy(value, "response")

IntentValidationErrors ==
  {"toolName is required when action=call_tool",
   "args is required when action=call_tool",
   "toolName is required when action=call_tool; args is required when action=call_tool",
   "response is required when action=respond"}

C27_IncompleteIntentRejected ==
  (answered /\ selectionRecovered(answer) /\ ~carriesItsFields(selectedValue(answer))) =>
    /\ pc' = "threw"
    /\ runnerError' \in IntentValidationErrors
    /\ validated' = validated
    /\ executed' = executed
    /\ toolCalls' = toolCalls
    /\ requests' = requests

C27_CompleteIntentAccepted ==
  (answered /\ selectionRecovered(answer) /\ carriesItsFields(selectedValue(answer))) =>
    /\ pc' = "threw" =>
         runnerError' \notin IntentValidationErrors
                               \cup {"Missing response for action=respond",
                                     "Missing toolName/args for action=call_tool",
                                     "Fallback intent missing response"}
    /\ selectedValue(answer).action = "respond" =>
         (pc' = "returned" /\ finalText' = selectedValue(answer).response)

\* C27: parseToolIntentText accepts a recovered selection exactly when it is call_tool
\* with toolName and args, or respond with response; any other selection is rejected
\* with the schema's error before a tool is validated or executed.
C27_IntentValidation ==
  [][C27_IncompleteIntentRejected /\ C27_CompleteIntentAccepted]_vars

\* A call_tool selection without args was rejected, nothing having been validated.
C27_Witness ==
  /\ pc = "threw"
  /\ requests = <<"tool_intent">>
  /\ runnerError = "args is required when action=call_tool"
  /\ validated = {}
  /\ executed = <<>>

(***************************************************************************)
(* Benchmark statistics, under LibSpec.                                    *)
(***************************************************************************)
percentileApplied == libCall.fn = "percentile" /\ libResult # NoResult
aggregated == libCall.fn = "buildAggregates" /\ libResult # NoResult
rows == libResult.value
groupDurations(row) ==
  {libCall.records[i].durationMs :
     i \in {j \in 1..Len(libCall.records) : keyOf(libCall.records[j]) = row.key}}

\* The smallest index i (from 1) with i >= n * q, kept within 1..n.
expectedPosition(n, q) ==
  LET reaching == {i \in 1..n : i * q.den >= n * q.num}
  IN IF reaching = {} THEN n ELSE CHOOSE i \in reaching : \A j \in reaching : i <= j

C28_PercentileIndex ==
  percentileApplied =>
    /\ libCall.values = <<>> => libResult.value = 0
    /\ libCall.values # <<>> =>
         libResult.value = libCall.values[expectedPosition(Len(libCall.values), libCall.q)]
    /\ libCall.values = <<100, 200, 300>> =>
         libResult.value = (IF libCall.q = Half THEN 200 ELSE 300)

C28_GroupPercentiles ==
  aggregated =>
    \A i \in 1..Len(rows) :
      /\ rows[i].medianDurationMs \in groupDurations(rows[i])
      /\ rows[i].p95DurationMs \in groupDurations(rows[i])
      /\ rows[i].medianDurationMs <= rows[i].p95DurationMs

\* C28: the percentile is the element at index clamp(ceil(n*q) - 1, 0, n-1) of the
\* ascending durations, 0 for none; of [100,200,300] it is 200 at 0.5 and 300 at 0.95;
\* a group's median and p95 are durations of the group, the median not above the p95.
C28_Percentile == C28_PercentileIndex /\ C28_GroupPercentiles

\* The median of [100,200,300] was taken.
C28_Witness ==
  /\ percentileApplied
  /\ libCall.values = <<100, 200, 300>>
  /\ libCall.q = Half
  /\ libResult.value = 200

recordsOf(row) == SelectSeq(libCall.records, LAMBDA r : keyOf(r) = row.key)
total(row, field) == sumOver(recordsOf(row), field)
\* h is num/den rounded to hundredths, halves upwards.
isRounded2(h, num, den) == 2 * den * h <= 200 * num + den /\ 200 * num + den < 2 * den * (h + 1)
isRounded(w, num, den) == 2 * den * w <= 2 * num + den /\ 2 * num + den < 2 * den * (w + 1)

C29_RowMetrics(row) ==
  LET n == Len(recordsOf(row))
      toolUsedRuns == Len(SelectSeq(recordsOf(row), LAMBDA r : r.toolCalls > 0))
  IN /\ row.totalRuns = n
     /\ row.successRuns = Len(SelectSeq(recordsOf(row), LAMBDA r : r.success))
     /\ row.successRate.num * n = row.successRuns * row.successRate.den
     /\ isRounded(row.avgDurationMs, total(row, "durationMs"), n)
     /\ isRounded2(row.avgToolCalls, total(row, "toolCalls"), n)
     /\ isRounded2(row.avgRepairedCalls, total(row, "repairedCalls"), n)
     /\ isRounded2(row.toolUseRate, toolUsedRuns, n)
     /\ isRounded2(row.avgAttempts, total(row, "attempts"), n)
     /\ IF total(row, "toolCalls") = 0 THEN row.repairRate = 0
        ELSE isRounded2(row.repairRate, total(row, "repairedCalls"), total(row, "toolCalls"))

C29_Example ==
  libCall.records = ExampleRecords =>
    /\ Len(rows) = 1
    /\ rows[1].successRate.num * 3 = 2 * rows[1].successRate.den
    /\ rows[1].avgDurationMs = 200
    /\ rows[1].medianDurationMs = 200
    /\ rows[1].p95DurationMs = 300
    /\ rows[1].avgToolCalls = 100
    /\ rows[1].repairRate = 33
    /\ rows[1].toolUseRate = 67

\* C29: per group, successRate = successRuns/totalRuns, avgDurationMs is the mean rounded
\* to a whole, the averages and rates are rounded to two decimals, repairRate is the
\* repaired calls over the tool calls of the group and 0 when it made none; the example
\* records give 2/3, 200, 200, 300, 1, 0.33 and 0.67.
C29_AggregateMetrics ==
  aggregated => (C29_Example /\ \A i \in 1..Len(rows) : C29_RowMetrics(rows[i]))

\* The example records were aggregated.
C29_Witness ==
  /\ aggregated
  /\ libCall.records = ExampleRecords
  /\ Len(rows) = 1
  /\ rows[1].repairRate = 33

pairsIn(recs) == {<<recs[i].model, recs[i].strategy>> : i \in 1..Len(recs)}

RECURSIVE sumRuns(_)
sumRuns(rs) == IF rs = <<>> THEN 0 ELSE Head(rs).totalRuns + sumRuns(Tail(rs))

strategyOrder == <<"hybrid-repair", "single-tool-router", "structured-json">>
alphabetical(a, b) ==
  \/ a = b
  \/ \E i, j \in 1..3 : i < j /\ strategyOrder[i] = a /\ strategyOrder[j] = b
  \/ a = "model-a" /\ b = "model-b"

\* C30: buildAggregates returns one row per (model, strategy) pair of the records, the
\* totalRuns of the rows sum to the number of records, and the rows are sorted by
\* strategy name and then by model name, whatever the order of the records.
C30_RowsPerPairSorted ==
  aggregated =>
    /\ Len(rows) = Cardinality(pairsIn(libCall.records))
    /\ {<<rows[i].model, rows[i].strategy>> : i \in 1..Len(rows)} = pairsIn(libCall.records)
    /\ sumRuns(rows) = Len(libCall.records)
    /\ \A i \in 1..(Len(rows) - 1) :
         /\ alphabetical(rows[i].strategy, rows[i + 1].strategy)
         /\ rows[i].strategy = rows[i + 1].strategy =>
              (rows[i].model # rows[i + 1].model
                 /\ alphabetical(rows[i].model, rows[i + 1].model))

\* Records given with the later strategy and the later model first came out sorted.
C30_Witness ==
  /\ aggregated
  /\ Len(libCall.records) = 3
  /\ libCall.records[1].strategy = "structured-json" /\ libCall.records[1].model = "model-b"
  /\ libCall.records[2].strategy = "structured-json" /\ libCall.records[2].model = "model-a"
  /\ libCall.records[3].strategy = "hybrid-repair"
  /\ Len(rows) = 3
  /\ rows[1].strategy = "hybrid-repair"
  /\ rows[2].model = "model-a"

(***************************************************************************)
(* Comparisons, under LibSpec.                                             *)
(***************************************************************************)
compared == libCall.fn = "buildComparisons" /\ libResult # NoResult
comparisons == libResult.value
aggregatesIn == buildAggregates(libCall.records)
rowsOfModel(model) == {i \in 1..Len(aggregatesIn) : aggregatesIn[i].model = model}

\* a ranks strictly before b: success rate descending, then average duration
\* ascending, then average attempts ascending, then strategy name.
ranksBefore(a, b) ==
  \/ a.successRate.num * b.successRate.den > b.successRate.num * a.successRate.den
  \/ /\ a.successRate.num * b.successRate.den = b.successRate.num * a.successRate.den
     /\ \/ a.avgDurationMs < b.avgDurationMs
        \/ /\ a.avgDurationMs = b.avgDurationMs
           /\ \/ a.avgAttempts < b.avgAttempts
              \/ /\ a.avgAttempts = b.avgAttempts
                 /\ collationRank(a.strategy) < collationRank(b.strategy)

\* The top aggregate row of a model under the ranking.
baselineOf(model) ==
  aggregatesIn[CHOOSE i \in rowsOfModel(model) :
                 \A j \in rowsOfModel(model) \ {i} : ranksBefore(aggregatesIn[i], aggregatesIn[j])]

comparisonsFor(row) ==
  {k \in 1..Len(comparisons) :
     comparisons[k].model = row.model /\ comparisons[k].strategy = row.strategy}

C31_OneRowPerAggregate ==
  /\ Len(comparisons) = Len(aggregatesIn)
  /\ \A i \in 1..Len(aggregatesIn) : Cardinality(comparisonsFor(aggregatesIn[i])) = 1

C31_DeltasAgainstTopRow ==
  \A k \in 1..Len(comparisons) :
    LET baseline == baselineOf(comparisons[k].model)
    IN /\ comparisons[k].deltaDurationMs = comparisons[k].avgDurationMs - baseline.avgDurationMs
       /\ comparisons[k].deltaToolCalls = comparisons[k].avgToolCalls - baseline.avgToolCalls
       /\ comparisons[k].strategy = baseline.strategy =>
            /\ comparisons[k].deltaSuccessRate = 0
            /\ comparisons[k].deltaDurationMs = 0

C31_TestExample ==
  libCall.records = ComparisonExample =>
    /\ Len(comparisons) = 3
    /\ comparisons[1].strategy = "single-tool-router"
    /\ comparisons[1].deltaSuccessRate = 0
    /\ comparisons[1].deltaDurationMs = 0

\* C31: within each model the baseline of buildComparisons is the top row by success
\* rate descending, average duration ascending, average attempts ascending, strategy
\* name; its own comparison row has deltaSuccessRate 0 and deltaDurationMs 0; every
\* aggregate row, the baseline included, yields exactly one comparison row.
C31_Baseline ==
  compared => (C31_OneRowPerAggregate /\ C31_DeltasAgainstTopRow /\ C31_TestExample)

\* Three strategies of one model with equal success rate and duration: the baseline
\* was settled by the average attempts and then the strategy name.
C31_Witness ==
  /\ compared
  /\ Len(comparisons) = 3
  /\ \A k \in 1..3 : comparisons[k].model = "model-a" /\ comparisons[k].avgDurationMs = 180
  /\ \A k \in 1..3 : comparisons[k].successRate = Quotient(1, 1)
  /\ baselineOf("model-a").strategy = "single-tool-router"
  /\ comparisons[1].strategy = "single-tool-router"

\* C32: the comparison rows are sorted by model, then by ascending deltaSuccessRate,
\* and the baseline's row is the first of its model, also when other rows of the model
\* have deltaSuccessRate 0 as well.
C32_SortedBaselineFirst ==
  compared =>
    /\ \A i, j \in 1..Len(comparisons) :
         i < j =>
           \/ collationRank(comparisons[i].model) < collationRank(comparisons[j].model)
           \/ /\ comparisons[i].model = comparisons[j].model
              /\ comparisons[i].deltaSuccessRate <= comparisons[j].deltaSuccessRate
    /\ \A k \in 1..Len(comparisons) :
         (k = 1 \/ comparisons[k - 1].model # comparisons[k].model) =>
           comparisons[k].strategy = baselineOf(comparisons[k].model).strategy

\* The rows of model-b were given first and those of model-a tie at delta 0; model-a's
\* baseline leads the output all the same.
C32_Witness ==
  /\ compared
  /\ Len(libCall.records) = 3
  /\ libCall.records[1].model = "model-b"
  /\ Len(comparisons) = 3
  /\ comparisons[1].model = "model-a" /\ comparisons[2].model = "model-a"
  /\ comparisons[3].model = "model-b"
  /\ comparisons[1].deltaSuccessRate = 0 /\ comparisons[2].deltaSuccessRate = 0
  /\ comparisons[1].strategy = baselineOf("model-a").strategy
  /\ comparisons[2].deltaDurationMs > 0

sameRateAsBaseline(row) ==
  quotientMinus(row.successRate, baselineOf(row.model).successRate) = 0

\* C39: every comparison row has deltaSuccessRate >= 0, and a row with the success rate
\* of its model's baseline has deltaDurationMs >= 0; a negative deltaDurationMs occurs
\* only on a row with a strictly lower success rate than the baseline.
C39_DeltaSigns ==
  compared =>
    \A k \in 1..Len(comparisons) :
      /\ comparisons[k].deltaSuccessRate >= 0
      /\ sameRateAsBaseline(comparisons[k]) => comparisons[k].deltaDurationMs >= 0
      /\ comparisons[k].deltaDurationMs < 0 =>
           quotientMinus(comparisons[k].successRate,
                         baselineOf(comparisons[k].model).successRate) < 0

\* A strategy that fails half the time was faster than its model's baseline.
C39_Witness ==
  /\ compared
  /\ \E k \in 1..Len(comparisons) :
       /\ comparisons[k].deltaDurationMs < 0
       /\ comparisons[k].deltaSuccessRate = 5000
       /\ ~sameRateAsBaseline(comparisons[k])

(***************************************************************************)
(* The turn loops, under TurnLoopSpec.                                     *)
(***************************************************************************)
inTurnLoopRun == rpc = "attempt" /\ pc \notin {"idle"}
runEnded == pc \in {"returned", "threw"}
decisionKinds == {"dispatch", "hybrid_turn"}
decisionRequests == Cardinality({i \in 1..Len(requests) : requests[i] \in decisionKinds})

\* options.maxTurns, or the default of the strategy: 4 for the router, 3 for hybrid.
maxTurnsOfRun ==
  IF currentStrategy = "single-tool-router"
    THEN (IF config.routerMaxTurns.has THEN config.routerMaxTurns.val
          ELSE ROUTER_DEFAULT_MAX_TURNS)
  ELSE (IF config.hybridMaxTurns.has THEN config.hybridMaxTurns.val
        ELSE HYBRID_DEFAULT_MAX_TURNS)

C33_WithinBudget ==
  inTurnLoopRun =>
    /\ decisionRequests <= maxTurnsOfRun
    /\ Len(toolCalls) <= maxTurnsOfRun
    /\ Len(executed) <= maxTurnsOfRun
    /\ Len(requests) <= 2 * maxTurnsOfRun
    /\ Len(responses) <= Len(requests)

C33_RunEnds == (rpc = "attempt" /\ pc = "start") ~> runEnded

\* C33: when every model call eventually returns or fails, a single-tool-router run
\* (maxTurns default 4) and a hybrid-repair run (maxTurns default 3) end with a result
\* or an error after at most maxTurns decision requests, at most maxTurns tool
\* executions and at most 2 * maxTurns model calls of any kind.
C33_TurnLoopTerminates == []C33_WithinBudget /\ C33_RunEnds

\* A router run on the default budget used all of it: four decisions, each repaired.
C33_Witness ==
  /\ currentStrategy = "single-tool-router"
  /\ config.routerMaxTurns = Absent
  /\ pc = "returned"
  /\ decisionRequests = 4
  /\ Len(requests) = 8
  /\ Len(toolCalls) = 4

(***************************************************************************)
(* The conversation history of the turn loops, under Spec.                 *)
(***************************************************************************)
\* A turn-loop runner has been entered (with an API key, runStrategyOnce gets that far).
turnLoopRunning ==
  /\ isRouter \/ isHybrid
  /\ config.hasApiKey
  /\ rpc = "attempt"
  /\ pc \notin {"idle", "start"}
decisionsBefore(i) == Cardinality({j \in 1..(i - 1) : requests[j] \in decisionKinds})

\* history is the user prompt followed by the pairs of the first t tool executions.
isHistoryOfTurns(history, t) ==
  /\ Len(history) = 1 + 2 * t
  /\ history[1] = createUserContent(userPrompt)
  /\ \A k \in 1..t :
       /\ history[2 * k].role = "model"
       /\ \E part \in 1..Len(history[2 * k].parts) :
            Has(history[2 * k].parts[part], "functionCall")
       /\ history[2 * k + 1].role = "user"
       /\ history[2 * k + 1].kind = "functionResponse"
       /\ history[2 * k + 1].response.result = toolCalls[k].result

C34_DecisionCarriesHistory ==
  turnLoopRunning =>
    /\ Len(sent) = Len(requests)
    /\ Len(contents) = 1 + 2 * Len(toolCalls)
    /\ \A i \in 1..Len(requests) :
         IF requests[i] \in decisionKinds
           THEN /\ sent[i].kind = "history"
                /\ decisionsBefore(i) <= Len(toolCalls)
                /\ isHistoryOfTurns(sent[i].history, decisionsBefore(i))
         ELSE sent[i].kind # "history"

C34_HistoryOnlyGrows ==
  (turnLoopRunning /\ turnLoopRunning') =>
    /\ Len(contents') >= Len(contents)
    /\ SubSeq(contents', 1, Len(contents)) = contents
    /\ Len(requests') > Len(requests) =>
         /\ contents' = contents
         /\ requests'[Len(requests')] \in decisionKinds =>
              /\ sent'[Len(sent')].history = contents
              /\ turn = Len(toolCalls)
              /\ decisionRequests = turn
    /\ contents' # contents =>
         /\ Len(contents') = Len(contents) + 2
         /\ Len(toolCalls') = Len(toolCalls) + 1
         /\ SubSeq(toolCalls', 1, Len(toolCalls)) = toolCalls

\* C34: the history sent with the decision request of turn t is the user prompt
\* followed by exactly t pairs (model function-call turn, function-response turn) in
\* execution order, 1 + 2 * toolCalls.length entries; its entries are never changed or
\* removed; repair, finalization and fallback requests neither carry nor extend it.
C34_History == []C34_DecisionCarriesHistory /\ [][C34_HistoryOnlyGrows]_vars

\* The second decision of a router run carried three entries, and the repair request
\* that followed it carried a prompt of its own.
C34_Witness ==
  /\ isRouter
  /\ pc = "str_await_repair"
  /\ requests = <<"dispatch", "dispatch", "repair">>
  /\ Len(sent[2].history) = 3
  /\ sent[2].history[3].response.result = toolCalls[1].result
  /\ sent[3].kind = "repair_prompt"
  /\ Len(contents) = 3

(***************************************************************************)
(* The order of the recovery steps, under LibSpec.                         *)
(***************************************************************************)
RecoverySteps == <<StrictParse, WholeTextRepair, Extraction>>
stepsTried == parseJsonWithRepair(libCall.raw).tried
normalizedText == unwrapMarkdownCodeFence(libCall.raw)
strictlyParses == normalizedText.form # "empty" /\ JSONparse(normalizedText)
repairsAsAWhole == normalizedText.form # "empty" /\ jsonrepair(normalizedText).ok
wasTried(step) == \E i \in 1..Len(stepsTried) : stepsTried[i] = step

\* C35: recover applies its steps in strict order and the first success wins: after
\* stripping one enclosing fence and trimming, a text that parses strictly is returned
\* without any heuristic repair; the whole-text repair is tried only after the strict
\* parse failed; the balanced {...} extraction only after both failed.
C35_StepsInOrder ==
  recovered =>
    /\ stepsTried = SubSeq(RecoverySteps, 1, Len(stepsTried))
    /\ strictlyParses =>
         /\ stepsTried = <<StrictParse>>
         /\ libResult = returned(normalizedText.val)
    /\ wasTried(WholeTextRepair) => ~strictlyParses
    /\ (~strictlyParses /\ repairsAsAWhole) =>
         /\ stepsTried = <<StrictParse, WholeTextRepair>>
         /\ libResult = returned(jsonrepair(normalizedText).text.val)
    /\ wasTried(Extraction) => (~strictlyParses /\ ~repairsAsAWhole)
    /\ (normalizedText.form # "empty" /\ ~strictlyParses /\ ~repairsAsAWhole) =>
         wasTried(Extraction)

\* A fenced trailing-comma object: the fence was stripped, the strict parse failed, the
\* whole-text repair succeeded and nothing was extracted.
C35_Witness ==
  /\ recovered
  /\ libCall.raw = Text("fenced_trailing_comma", ArgsSum12)
  /\ stepsTried = <<StrictParse, WholeTextRepair>>
  /\ libResult = returned(ArgsSum12)

(***************************************************************************)
(* The brace scan, under LibSpec.                                          *)
(***************************************************************************)
extracted == libCall.fn = "extractFirstBalancedJsonObject" /\ libResult # NoResult
countOf(chars, ch) == Cardinality({i \in 1..Len(chars) : chars[i] = ch})
\* The brace depth of s after position j, counted from position first.
depthAfter(s, first, j) ==
  countOf(SubSeq(s, first, j), "{") - countOf(SubSeq(s, first, j), "}")
opens(s) == {i \in 1..Len(s) : s[i] = "{"}
firstOpen(s) == CHOOSE i \in opens(s) : \A j \in opens(s) : i <= j
closesAtZero(s) ==
  {j \in firstOpen(s)..Len(s) : s[j] = "}" /\ depthAfter(s, firstOpen(s), j) = 0}
firstCloseAtZero(s) == CHOOSE j \in closesAtZero(s) : \A k \in closesAtZero(s) : j <= k
QuotedBrace == <<"{", "\"", "{", "\"", "}">>

\* C36: extractFirstBalancedJsonObject(s) is null exactly when s has no "{" or the
\* depth counted from the first "{" never returns to 0; otherwise it is the substring
\* from the first "{" to the first "}" at which the depth is 0 again, with as many "{"
\* as "}" and no balanced proper prefix; braces inside string literals count too.
C36_FirstBalancedSubstring ==
  extracted =>
    LET s == libCall.input
        result == libResult.value
    IN /\ result.isNull <=> (opens(s) = {} \/ closesAtZero(s) = {})
       /\ ~result.isNull =>
            /\ result.chars = SubSeq(s, firstOpen(s), firstCloseAtZero(s))
            /\ countOf(result.chars, "{") = countOf(result.chars, "}")
            /\ \A n \in 1..(Len(result.chars) - 1) :
                 countOf(SubSeq(result.chars, 1, n), "{")
                   # countOf(SubSeq(result.chars, 1, n), "}")
       /\ s = QuotedBrace => result.isNull

\* The object {"{"} was scanned: the brace inside its string kept the depth above 0.
C36_Witness ==
  /\ extracted
  /\ libCall.input = QuotedBrace
  /\ libResult.value = NullString

(***************************************************************************)
(* Finalization in the turn loops, under TurnLoopSpec.                     *)
(***************************************************************************)
finalizationRequested ==
  /\ turnLoopRunning
  /\ Len(requests') = Len(requests) + 1
  /\ requests'[Len(requests')] = "final_response"
finalizations == Cardinality({i \in 1..Len(requests) : requests[i] = "final_response"})

C37_BuiltFromLastCall ==
  finalizationRequested =>
    /\ answered
    /\ answer.functionCalls = <<>>
    /\ textIsBlank(answer.text)
    /\ executedIn(attempt) # <<>>
    /\ sent'[Len(sent')] =
         [kind |-> "final_response_prompt",
          userPrompt |-> userPrompt,
          toolName |-> lastExecuted.toolName,
          toolArgs |-> lastExecuted.args,
          toolResult |-> execute(registry, lastExecuted.toolName, lastExecuted.args).result]
    /\ toolCalls' = toolCalls

C37_AllCallsReturned ==
  (turnLoopRunning /\ pc = "returned") =>
    /\ finalizations <= 1
    /\ callKeys(toolCalls) = executedKeys(attempt)
    /\ \A k \in 1..Len(toolCalls) :
         toolCalls[k].result = execute(registry, toolCalls[k].toolName, toolCalls[k].args).result

\* C37: when a turn-loop runner finalizes after one or more tool executions (a turn
\* with no function call and empty text), the one finalization request is built from
\* the most recently executed call - its toolName, validated args and result - and the
\* returned toolCalls still holds every executed call in execution order.
C37_FinalizationUsesLastCall == []C37_AllCallsReturned /\ [][C37_BuiltFromLastCall]_vars

\* A router run summed, then sorted, then finalized on the sort and returned both calls.
C37_Witness ==
  /\ isRouter
  /\ pc = "returned"
  /\ requests = <<"dispatch", "dispatch", "dispatch", "final_response">>
  /\ Len(toolCalls) = 2
  /\ toolCalls[1].toolName = "sum_numbers"
  /\ toolCalls[2].toolName = "sort_numbers"
  /\ sent[4].toolName = "sort_numbers"
  /\ sent[4].toolResult = toolCalls[2].result

(***************************************************************************)
(* One tool per turn, under TurnLoopSpec.                                  *)
(***************************************************************************)
\* The tool the first function call of a decision reply asks for.
firstCallTool(reply) ==
  IF isRouter THEN reply.functionCalls[1].args.toolName ELSE reply.functionCalls[1].name

C38_AtMostOnePerTurn ==
  turnLoopRunning =>
    /\ Len(toolCalls) <= decisionRequests
    /\ Len(executedIn(attempt)) <= decisionRequests

C38_OnlyFirstCallProcessed ==
  turnLoopRunning =>
    /\ Len(executed') <= Len(executed) + 1
    /\ Len(toolCalls') <= Len(toolCalls) + 1
    /\ toolExecutedInStep =>
         /\ executingTurnReply.functionCalls # <<>>
         /\ executed'[Len(executed')].toolName = firstCallTool(executingTurnReply)
         /\ toolCalls'[Len(toolCalls')].toolName = firstCallTool(executingTurnReply)
         /\ pc' \in {"str_loop", "hr_loop"}

\* C38: a turn-loop runner executes at most one tool per turn: only the first function
\* call of a model response is processed, any further one in the same response is
\* ignored and never executed, so toolCalls.length never exceeds the number of
\* decision requests made so far.
C38_OneToolPerTurn == []C38_AtMostOnePerTurn /\ [][C38_OnlyFirstCallProcessed]_vars

\* One hybrid turn whose reply asked for sort_numbers and then sum_numbers: only the
\* sort was executed.
C38_Witness ==
  /\ isHybrid
  /\ pc = "hr_loop"
  /\ requests = <<"hybrid_turn">>
  /\ Len(responses[1].functionCalls) = 2
  /\ responses[1].functionCalls[2].name = "sum_numbers"
  /\ Len(toolCalls) = 1
  /\ toolCalls[1].toolName = "sort_numbers"
  /\ Len(executedIn(attempt)) = 1

(***************************************************************************)
(* The menu window, under LibSpec.                                         *)
(***************************************************************************)
windowed == libCall.fn = "getMenuWindow" /\ libResult # NoResult
window == libResult.value
clampedIntoOptions ==
  IF libCall.selectedIndex < 0 THEN 0
  ELSE IF libCall.selectedIndex > libCall.optionCount - 1 THEN libCall.optionCount - 1
  ELSE libCall.selectedIndex

C40_TestExamples ==
  /\ libCall = menuCall(6, 2, 10) => window = MenuWindow(0, 6)
  /\ libCall = menuCall(25, 0, 10) => window = MenuWindow(0, 10)
  /\ libCall = menuCall(25, 2, 10) => window = MenuWindow(0, 10)
  /\ libCall = menuCall(25, 12, 10) => window = MenuWindow(7, 17)
  /\ libCall = menuCall(25, 24, 10) => window = MenuWindow(15, 25)
  /\ libCall = menuCall(25, 22, 10) => window = MenuWindow(15, 25)

\* C40: for optionCount > 0, maxVisible > 0 and any integer selectedIndex the window
\* satisfies 0 <= start <= end <= optionCount, end - start = min(maxVisible,
\* optionCount), and holds the selected index clamped into [0, optionCount - 1]; for
\* optionCount <= 0 or maxVisible <= 0 it is the empty window {start: 0, end: 0}.
C40_MenuWindow ==
  windowed =>
    /\ C40_TestExamples
    /\ IF libCall.optionCount > 0 /\ libCall.maxVisible > 0
         THEN /\ 0 <= window.start
              /\ window.start <= window.end
              /\ window.end <= libCall.optionCount
              /\ window.end - window.start =
                   (IF libCall.maxVisible < libCall.optionCount THEN libCall.maxVisible
                    ELSE libCall.optionCount)
              /\ window.start <= clampedIntoOptions
              /\ clampedIntoOptions < window.end
         ELSE window = [start |-> 0, end |-> 0]

\* The last of 25 options with 10 visible: the window was shifted back to 15..25.
C40_Witness ==
  /\ windowed
  /\ libCall = menuCall(25, 24, 10)
  /\ window = MenuWindow(15, 25)

====
